---- MODULE Spec2Model ----
(***************************************************************************)
(* Bulk ingestion and incremental synchronisation engine of SpotifySearch  *)
(* (src/unnamed/part_006, the server): the Item Pipeline processVideo, Job *)
(* Registry channelJobs, the three background orchestrators                *)
(* processChannelAsync / processMissingVideosAsync /                       *)
(* retrySkippedVideosAsync, the single video request and the sweep         *)
(* runCronJob, over the MySQL tables podcasts, skipped_videos, channels.   *)
(*                                                                         *)
(* One action is one turn of the Node.js event loop: the code that runs    *)
(* between two awaits.  A status poll is another turn, so it observes the  *)
(* states of this model and nothing in between.                            *)
(***************************************************************************)
EXTENDS Integers, Sequences, FiniteSets, TLC

\* ---------------------------------------------------------------- bounds
MaxJobs == 2
NumVideos == 3
MaxReqs == 3
BigExtra == 2
ScenarioSize == 5
ScenarioStored == 2
MaxSyncs == 2

\* ------------------------------------------------------ program constants
ResultsCap == 10
MaxVideosCap == 100
MissingMax == 10000
MinTranscript == 50
CronWindow == 50
CronCap == 10
HoursPerDay == 24

\* ------------------------------------------------------------ vocabulary
Videos == 1 .. NumVideos
JobIds == 1 .. MaxJobs
Channels == {"A", "B"}
Unknown == "Unknown"
NoVideo == 0
NoText == -1
NoDate == 0
TzOffsets == {-1, 0, 1}
Forms == {"watch"}
MaxVideosInputs == {1, 50}
InfoOutcomes == {"ok", "fail"}
TranscriptOutcomes == {"ok", "short", "none", "error"}

VARIABLES
  live,          \* the videos each channel lists on YouTube, newest first
  podcasts,      \* table podcasts: rows [url, name, date, dup]
  skipped,       \* table skipped_videos: rows [video_id, video_url, channel_name, skip_reason]
  channels,      \* table channels: rows [channel_name, channel_url, total_videos]
  channelJobs,   \* the Map channelJobs: job id -> job object (NoJob when absent)
  nextJob,       \* number of job ids handed out so far, plus one
  run,           \* per job id: the orchestrator's locals and position
  hist,          \* per job id: every value job.status has been assigned, in order
  req,           \* the single video request in flight and the last response
  cron,          \* the sweep runCronJob: its locals, position and report
  sync,          \* the sync check in flight, its last response, the server's time zone
  poll           \* the last answer of GET /api/channel-status/:jobId

vars == <<live, podcasts, skipped, channels, channelJobs, nextJob, run, hist, req, cron,
         sync, poll>>

jobVars == <<channelJobs, nextJob, run, hist>>

\* ------------------------------------------------------------- URL helpers
WatchUrl(v) == [form |-> "watch", id |-> v]

extractYoutubeId(url) == url.id

Owner(v) == CHOOSE c \in Channels : \E k \in 1 .. Len(live[c]) : live[c][k] = v

Min(a, b) == IF a < b THEN a ELSE b

Take(s, n) == SubSeq(s, 1, Min(n, Len(s)))

RECURSIVE SelectSeq2(_, _)
SelectSeq2(s, keep) ==
  IF s = <<>> THEN <<>>
  ELSE IF Head(s).id \in keep THEN <<Head(s)>> \o SelectSeq2(Tail(s), keep)
       ELSE SelectSeq2(Tail(s), keep)

\* ------------------------------------------------------ external services
getChannelVideos(c, maxVideos) ==
  [k \in 1 .. Len(Take(live[c], maxVideos)) |->
     [id |-> live[c][k], url |-> WatchUrl(live[c][k])]]

getYoutubeInfo(v, out) == IF out = "ok" THEN Owner(v) ELSE Unknown

\* The day a video was published, as a day number.
UploadDay(v) == v

\* getYoutubeInfo's uploadDate: it comes with the channel, from the same
\* metadata, and is null when the metadata call failed.
UploadDateOf(v, name) == IF name = Unknown THEN NoDate ELSE UploadDay(v)

downloadSubtitles(out) ==
  CASE out = "ok" -> MinTranscript
    [] out = "short" -> MinTranscript - 1
    [] OTHER -> NoText

\* NoTranscript without the length test of line 303.
NoTranscriptNullOnly(t) == t = NoText

NoTranscript(t) == t = NoText \/ t < MinTranscript

\* ------------------------------------------------------------------ tables
UrlStored(url) == \E p \in podcasts : p.url = url

InsertPodcast(url, name) ==
  podcasts \cup {[url |-> url, name |-> name,
                  date |-> UploadDateOf(extractYoutubeId(url), name),
                  dup |-> Cardinality({p \in podcasts : p.url = url})]}

SkipRows(v) == {s \in skipped : s.video_id = v}

\* InsertIgnoreSkipped over a skipped_videos table whose video_id has no
\* UNIQUE key.
InsertSkippedNoUnique(url, v, name) ==
  skipped \cup {[video_id |-> v, video_url |-> url, channel_name |-> name,
                 skip_reason |-> "no_subtitles"]}

InsertIgnoreSkipped(url, v, name) ==
  IF SkipRows(v) # {} THEN skipped
  ELSE skipped \cup {[video_id |-> v, video_url |-> url, channel_name |-> name,
                      skip_reason |-> "no_subtitles"]}

ProcessedIds(name) ==
  {extractYoutubeId(p.url) : p \in {q \in podcasts : q.name = name}}
    \cup {s.video_id : s \in {r \in skipped : r.channel_name = name}}

CountPodcasts(name) == Cardinality({p \in podcasts : p.name = name})

\* --------------------------------------------------------------- registry
NoJob == [status |-> "absent"]

NewJob(url, name, total) ==
  [status |-> "starting", url |-> url, channelName |-> name, total |-> total,
   processed |-> 0, skipped |-> 0, failed |-> 0, results |-> <<>>,
   currentVideo |-> NoVideo, error |-> "", channelUrl |-> "",
   totalVideosOnYoutube |-> 0]

IdleRun ==
  [kind |-> "none", pc |-> "idle", url |-> "", max |-> 0, list |-> <<>>, i |-> 0,
   name |-> "", trOut |-> "", processedIds |-> {}, count |-> 0]

\* Truncate with slice(0, 10): the newest entry is the one dropped.
TruncateNewest(results) ==
  IF Len(results) > ResultsCap THEN SubSeq(results, 1, ResultsCap) ELSE results

\* Truncate without the slice(-10).
TruncateNone(results) == results

Truncate(results) ==
  IF Len(results) > ResultsCap
  THEN SubSeq(results, Len(results) - ResultsCap + 1, Len(results))
  ELSE results

KeepResults(kind, results) ==
  IF kind \in {"missing", "retry"} THEN Truncate(results) ELSE results

Counted(job, kind, v, status, detail) ==
  [job EXCEPT
     !.processed = IF status = "success" THEN @ + 1 ELSE @,
     !.skipped = IF status = "skipped" THEN @ + 1 ELSE @,
     !.failed = IF status = "failed" THEN @ + 1 ELSE @,
     !.results = KeepResults(kind,
                   Append(@, [title |-> v, status |-> status, detail |-> detail]))]

Completed(job) == [job EXCEPT !.status = "completed", !.currentVideo = NoVideo]

Errored(job, msg) == [job EXCEPT !.status = "error", !.error = msg]

\* LoopStep without the assignment of job.currentVideo at the head of the
\* loop body.
LoopStepNoAnnounce(job, fr, i) ==
  IF i <= Len(fr.list)
  THEN [job |-> job,
        fr |-> [fr EXCEPT !.i = i, !.pc = "fetch", !.name = "", !.trOut = ""],
        sts |-> <<>>]
  ELSE [job |-> Completed(job),
        fr |-> [fr EXCEPT !.i = i, !.name = "", !.trOut = "",
                          !.pc = IF fr.kind = "missing" /\ job.channelName # ""
                                 THEN "count" ELSE "done"],
        sts |-> <<"completed">>]

\* The head of the orchestrators' for loop, entered with index i (1-based):
\* either the next candidate is announced and handed to processVideo, or the
\* loop is over and the job completes in the same turn.
LoopStep(job, fr, i) ==
  IF i <= Len(fr.list)
  THEN [job |-> [job EXCEPT !.currentVideo = fr.list[i].id],
        fr |-> [fr EXCEPT !.i = i, !.pc = "fetch", !.name = "", !.trOut = ""],
        sts |-> <<>>]
  ELSE [job |-> Completed(job),
        fr |-> [fr EXCEPT !.i = i, !.name = "", !.trOut = "",
                          !.pc = IF fr.kind = "missing" /\ job.channelName # ""
                                 THEN "count" ELSE "done"],
        sts |-> <<"completed">>]

NoResp == [url |-> WatchUrl(NoVideo), out |-> "none", reason |-> ""]

IdleReq(n) == [n |-> n, pc |-> "idle", url |-> WatchUrl(NoVideo), name |-> "",
               trOut |-> "", resp |-> NoResp]

NoReport == [channelsChecked |-> 0, newVideosFound |-> 0, videosProcessed |-> 0,
             videosSkipped |-> 0, videosFailed |-> 0, errors |-> <<>>]

IdleCron == [pc |-> "idle", chans |-> <<>>, ci |-> 0, list |-> <<>>, i |-> 0,
             name |-> "", trOut |-> "", processedIds |-> {}, report |-> NoReport]

NoSyncResp ==
  [code |-> "none", totalVideos |-> 0, videosInDb |-> 0, missingVideos |-> 0,
   lastVideoDate |-> NoDate, newestInDb |-> NoDate, hasNewVideos |-> FALSE]

\* tz is the server's offset from UTC in hours, positive to the east; it is
\* fixed when the process starts.
IdleSync(n, tz) ==
  [n |-> n, tz |-> tz, pc |-> "idle", name |-> "", url |-> "", total |-> 0,
   first |-> NoVideo, last |-> NoDate, inDb |-> 0, newest |-> NoDate,
   resp |-> NoSyncResp]

\* The registry's answer before any poll.
NoPoll == [id |-> 0, code |-> "none", body |-> NoJob]

Init ==
  /\ live = [c \in Channels |->
               IF c = "A" THEN [k \in 1 .. NumVideos - 1 |-> k] ELSE <<NumVideos>>]
  /\ podcasts = {}
  /\ skipped = {}
  /\ channels = {}
  /\ channelJobs = [j \in JobIds |-> NoJob]
  /\ nextJob = 1
  /\ run = [j \in JobIds |-> IdleRun]
  /\ hist = [j \in JobIds |-> <<>>]
  /\ req = IdleReq(0)
  /\ cron = IdleCron
  /\ sync = IdleSync(0, 0)
  /\ poll = NoPoll

\* POST /api/process on a channel or playlist URL, with the synchronous head
\* of processChannelAsync that the handler runs before it returns.
SubmitChannel(c, maxVideos) ==
  /\ nextJob <= MaxJobs
  /\ channelJobs' = [channelJobs EXCEPT ![nextJob] =
                       [NewJob(c, "", 0) EXCEPT !.status = "fetching_videos"]]
  /\ hist' = [hist EXCEPT ![nextJob] = <<"starting", "fetching_videos">>]
  /\ run' = [run EXCEPT ![nextJob] =
               [IdleRun EXCEPT !.kind = "channel", !.pc = "list", !.url = c,
                               !.max = Min(maxVideos, MaxVideosCap)]]
  /\ nextJob' = nextJob + 1
  /\ UNCHANGED <<live, podcasts, skipped, channels, req, cron, sync, poll>>

\* processChannelAsync: the listing and the SELECT of all stored URLs came
\* back; the job enters processing and the loop starts.
ChannelListed(j) ==
  /\ run[j].kind = "channel" /\ run[j].pc = "list"
  /\ LET allVideos == getChannelVideos(run[j].url, run[j].max)
         processedUrls == {p.url : p \in podcasts}
         newIds == {allVideos[k].id : k \in {n \in 1 .. Len(allVideos) :
                                               allVideos[n].url \notin processedUrls}}
         newVideos == SelectSeq2(allVideos, newIds)
         job == [channelJobs[j] EXCEPT
                   !.total = Len(newVideos),
                   !.skipped = Len(allVideos) - Len(newVideos),
                   !.status = "processing",
                   !.channelUrl = run[j].url,
                   !.totalVideosOnYoutube = Len(allVideos)]
         st == LoopStep(job, [run[j] EXCEPT !.list = newVideos, !.max = 0], 1)
     IN /\ channelJobs' = [channelJobs EXCEPT ![j] = st.job]
        /\ run' = [run EXCEPT ![j] = st.fr]
        /\ hist' = [hist EXCEPT ![j] = @ \o <<"processing">> \o st.sts]
  /\ UNCHANGED <<live, podcasts, skipped, channels, nextJob, req, cron, sync, poll>>

\* ListFailed with a catch that sets the status and drops the message.
ListFailedNoMessage(j) ==
  /\ run[j].kind \in {"channel", "missing"} /\ run[j].pc = "list"
  /\ channelJobs' = [channelJobs EXCEPT ![j] = Errored(@, "")]
  /\ hist' = [hist EXCEPT ![j] = Append(@, "error")]
  /\ run' = [run EXCEPT ![j].pc = "done", ![j].max = 0]
  /\ UNCHANGED <<live, podcasts, skipped, channels, nextJob, req, cron, sync, poll>>

\* getChannelVideos threw (or the SELECT did): the outer catch of the
\* orchestrator.
ListFailed(j) ==
  /\ run[j].kind \in {"channel", "missing"} /\ run[j].pc = "list"
  /\ channelJobs' = [channelJobs EXCEPT ![j] =
                       Errored(@, "Failed to fetch channel videos")]
  /\ hist' = [hist EXCEPT ![j] = Append(@, "error")]
  /\ run' = [run EXCEPT ![j].pc = "done", ![j].max = 0]
  /\ UNCHANGED <<live, podcasts, skipped, channels, nextJob, req, cron, sync, poll>>

Cur(j) == run[j].list[run[j].i]

\* JobFetch in a loop that does not await processVideo: when the metadata of
\* one candidate is back the call for the next candidate starts, and the
\* outcome of the first is never counted.
JobFetchNoAwait(j, info, tr) ==
  /\ run[j].pc = "fetch"
  /\ run' = IF run[j].i < Len(run[j].list)
            THEN [run EXCEPT ![j].i = @ + 1]
            ELSE [run EXCEPT ![j].name = getYoutubeInfo(Cur(j).id, info),
                             ![j].trOut = tr,
                             ![j].pc = IF NoTranscript(downloadSubtitles(tr))
                                       THEN "skipwrite" ELSE "save"]
  /\ UNCHANGED <<live, podcasts, skipped, channels, channelJobs, nextJob, hist, req, cron, sync, poll>>

\* processVideo, lines 297-301: getYoutubeInfo and downloadSubtitles came
\* back.  info and tr are what yt-dlp did.
JobFetch(j, info, tr) ==
  /\ run[j].pc = "fetch"
  /\ run' = [run EXCEPT ![j].name = getYoutubeInfo(Cur(j).id, info),
                        ![j].trOut = tr,
                        ![j].pc = IF NoTranscript(downloadSubtitles(tr))
                                  THEN "skipwrite" ELSE "save"]
  /\ UNCHANGED <<live, podcasts, skipped, channels, channelJobs, nextJob, hist, req, cron, sync, poll>>

\* processVideo, lines 303-315, and the caller's skipped branch.
JobSkipWrite(j) ==
  /\ run[j].pc = "skipwrite"
  /\ skipped' = InsertIgnoreSkipped(Cur(j).url, Cur(j).id, run[j].name)
  /\ channelJobs' = [channelJobs EXCEPT ![j] =
                       Counted(@, run[j].kind, Cur(j).id, "skipped", "no_subtitles")]
  /\ run' = [run EXCEPT ![j].pc = "delay", ![j].name = "", ![j].trOut = ""]
  /\ UNCHANGED <<live, podcasts, channels, nextJob, hist, req, cron, sync, poll>>

\* JobSave over a podcasts table whose spotify_url has no UNIQUE key.
JobSaveNoUnique(j, ai) ==
  /\ run[j].pc = "save"
  /\ LET ok == ai = "ok"
     IN /\ podcasts' = IF ok THEN InsertPodcast(Cur(j).url, run[j].name) ELSE podcasts
        /\ channelJobs' = [channelJobs EXCEPT ![j] =
                             IF ok THEN Counted(@, run[j].kind, Cur(j).id, "success", "ok")
                             ELSE Counted(@, run[j].kind, Cur(j).id, "failed", "ai")]
        /\ run' = IF ok /\ run[j].kind = "channel" /\ channelJobs[j].processed = 0
                      /\ channelJobs[j].channelUrl # ""
                   THEN [run EXCEPT ![j].pc = "upsert", ![j].trOut = ""]
                   ELSE [run EXCEPT ![j].pc = "delay", ![j].name = "", ![j].trOut = ""]
  /\ UNCHANGED <<live, skipped, channels, nextJob, hist, req, cron, sync, poll>>

\* JobSave without the per-item catch: an exception of processVideo reaches
\* the orchestrator's outer catch and ends the job.
JobSaveAbort(j, ai) ==
  /\ run[j].pc = "save"
  /\ LET ok == ai = "ok" /\ ~UrlStored(Cur(j).url)
         msg == IF ai # "ok" THEN "ai" ELSE "dup"
     IN /\ podcasts' = IF ok THEN InsertPodcast(Cur(j).url, run[j].name) ELSE podcasts
        /\ channelJobs' = [channelJobs EXCEPT ![j] =
                             IF ok THEN Counted(@, run[j].kind, Cur(j).id, "success", "ok")
                             ELSE Errored(@, msg)]
        /\ hist' = IF ok THEN hist ELSE [hist EXCEPT ![j] = Append(@, "error")]
        /\ run' = IF ~ok THEN [run EXCEPT ![j].pc = "done", ![j].name = "", ![j].trOut = ""]
                   ELSE IF run[j].kind = "channel" /\ channelJobs[j].processed = 0
                           /\ channelJobs[j].channelUrl # ""
                   THEN [run EXCEPT ![j].pc = "upsert", ![j].trOut = ""]
                   ELSE [run EXCEPT ![j].pc = "delay", ![j].name = "", ![j].trOut = ""]
  /\ UNCHANGED <<live, skipped, channels, nextJob, req, cron, sync, poll>>

\* processVideo, lines 339-384: the summarizer answered or threw, then the
\* INSERT into podcasts went through or hit the UNIQUE key; the caller counts
\* the outcome.
JobSave(j, ai) ==
  /\ run[j].pc = "save"
  /\ LET ok == ai = "ok" /\ ~UrlStored(Cur(j).url)
         msg == IF ai # "ok" THEN "ai" ELSE "dup"
     IN /\ podcasts' = IF ok THEN InsertPodcast(Cur(j).url, run[j].name) ELSE podcasts
        /\ channelJobs' = [channelJobs EXCEPT ![j] =
                             IF ok THEN Counted(@, run[j].kind, Cur(j).id, "success", "ok")
                             ELSE Counted(@, run[j].kind, Cur(j).id, "failed", msg)]
        /\ run' = IF ok /\ run[j].kind = "channel" /\ channelJobs[j].processed = 0
                      /\ channelJobs[j].channelUrl # ""
                   THEN [run EXCEPT ![j].pc = "upsert", ![j].trOut = ""]
                   ELSE [run EXCEPT ![j].pc = "delay", ![j].name = "", ![j].trOut = ""]
  /\ UNCHANGED <<live, skipped, channels, nextJob, hist, req, cron, sync, poll>>

ChannelRows(name) == {r \in channels : r.channel_name = name}

\* UpsertLearned with channel_url = VALUES(channel_url) in place of the
\* COALESCE.
UpsertLearnedOverwrite(name, url, total) ==
  IF ChannelRows(name) = {}
  THEN channels \cup {[channel_name |-> name, channel_url |-> url,
                       total_videos |-> total, last_video_date |-> NoDate,
                       last_checked |-> "ingest"]}
  ELSE {IF r.channel_name = name
        THEN [r EXCEPT !.channel_url = url,
                       !.total_videos = total, !.last_checked = "ingest"]
        ELSE r : r \in channels}

\* INSERT INTO channels ... ON DUPLICATE KEY UPDATE of processChannelAsync.
UpsertLearned(name, url, total) ==
  IF ChannelRows(name) = {}
  THEN channels \cup {[channel_name |-> name, channel_url |-> url,
                       total_videos |-> total, last_video_date |-> NoDate,
                       last_checked |-> "ingest"]}
  ELSE {IF r.channel_name = name
        THEN [r EXCEPT !.channel_url = IF @ = "" THEN url ELSE @,
                       !.total_videos = total, !.last_checked = "ingest"]
        ELSE r : r \in channels}

\* processChannelAsync, lines 539-554: the upsert after the first success; a
\* database error is logged and swallowed.
JobUpsert(j, db) ==
  /\ run[j].pc = "upsert"
  /\ channels' = IF db = "ok"
                 THEN UpsertLearned(run[j].name, channelJobs[j].channelUrl,
                                    channelJobs[j].totalVideosOnYoutube)
                 ELSE channels
  /\ run' = [run EXCEPT ![j].pc = "delay", ![j].name = ""]
  /\ UNCHANGED <<live, podcasts, skipped, channelJobs, nextJob, hist, req, cron, sync, poll>>

\* JobDelay with a timer that never fires.
JobDelayStuck(j) ==
  /\ run[j].pc = "delay"
  /\ UNCHANGED vars

\* The inter-item delay elapsed: next iteration, or completion.
JobDelay(j) ==
  /\ run[j].pc = "delay"
  /\ LET st == LoopStep(channelJobs[j], run[j], run[j].i + 1)
     IN /\ channelJobs' = [channelJobs EXCEPT ![j] = st.job]
        /\ run' = [run EXCEPT ![j] = st.fr]
        /\ hist' = [hist EXCEPT ![j] = @ \o st.sts]
  /\ UNCHANGED <<live, podcasts, skipped, channels, nextJob, req, cron, sync, poll>>

\* The filter of process-missing and of the sweep (lines 996 and 2007).
MissingFilter(allVideos, processedIds) ==
  SelectSeq2(allVideos, {allVideos[k].id : k \in 1 .. Len(allVideos)} \ processedIds)

\* SubmitMissing with a handler that answers with the job id and leaves the
\* registration to the orchestrator, after its listing.
SubmitMissingLate(c) ==
  /\ nextJob <= MaxJobs
  /\ hist' = [hist EXCEPT ![nextJob] = <<"starting", "fetching_videos">>]
  /\ run' = [run EXCEPT ![nextJob] =
               [IdleRun EXCEPT !.kind = "missing", !.pc = "list", !.url = c,
                               !.max = MissingMax,
                               !.processedIds = ProcessedIds(c)]]
  /\ nextJob' = nextJob + 1
  /\ UNCHANGED <<live, podcasts, skipped, channels, channelJobs, req, cron, sync, poll>>

\* POST /api/process-missing: the two SELECTs that build processedIds, the
\* job's registration and the synchronous head of processMissingVideosAsync.
SubmitMissing(c) ==
  /\ nextJob <= MaxJobs
  /\ channelJobs' = [channelJobs EXCEPT ![nextJob] =
                       [NewJob(c, c, 0) EXCEPT !.status = "fetching_videos"]]
  /\ hist' = [hist EXCEPT ![nextJob] = <<"starting", "fetching_videos">>]
  /\ run' = [run EXCEPT ![nextJob] =
               [IdleRun EXCEPT !.kind = "missing", !.pc = "list", !.url = c,
                               !.max = MissingMax,
                               !.processedIds = ProcessedIds(c)]]
  /\ nextJob' = nextJob + 1
  /\ UNCHANGED <<live, podcasts, skipped, channels, req, cron, sync, poll>>

\* processMissingVideosAsync, lines 993-1005: the listing came back.
MissingListed(j) ==
  /\ run[j].kind = "missing" /\ run[j].pc = "list"
  /\ LET allVideos == getChannelVideos(run[j].url, run[j].max)
         missingVideos == MissingFilter(allVideos, run[j].processedIds)
         job == [channelJobs[j] EXCEPT !.total = Len(missingVideos),
                                       !.status = "processing"]
         st == LoopStep(job, [run[j] EXCEPT !.list = missingVideos, !.max = 0,
                                            !.processedIds = {}], 1)
     IN /\ channelJobs' = [channelJobs EXCEPT ![j] = st.job]
        /\ run' = [run EXCEPT ![j] = st.fr]
        /\ hist' = [hist EXCEPT ![j] = @ \o <<"processing">> \o st.sts]
  /\ UNCHANGED <<live, podcasts, skipped, channels, nextJob, req, cron, sync, poll>>

\* MissingCount without the inner try: a database error of the reconciliation
\* reaches the orchestrator's outer catch.
MissingCountUncaught(j, db) ==
  /\ run[j].pc = "count"
  /\ run' = IF db = "ok"
            THEN [run EXCEPT ![j].pc = "update",
                             ![j].count = CountPodcasts(channelJobs[j].channelName)]
            ELSE [run EXCEPT ![j].pc = "done"]
  /\ channelJobs' = IF db = "ok" THEN channelJobs
                    ELSE [channelJobs EXCEPT ![j] = Errored(@, "db")]
  /\ hist' = IF db = "ok" THEN hist ELSE [hist EXCEPT ![j] = Append(@, "error")]
  /\ UNCHANGED <<live, podcasts, skipped, channels, nextJob, req, cron, sync, poll>>

\* processMissingVideosAsync, lines 1038-1044: the COUNT(*) after completion;
\* a database error is caught by the inner try.
MissingCount(j, db) ==
  /\ run[j].pc = "count"
  /\ run' = IF db = "ok"
            THEN [run EXCEPT ![j].pc = "update",
                             ![j].count = CountPodcasts(channelJobs[j].channelName)]
            ELSE [run EXCEPT ![j].pc = "done"]
  /\ UNCHANGED <<live, podcasts, skipped, channels, channelJobs, nextJob, hist, req, cron, sync, poll>>

AllDone(job) == job.total = 0 \/ job.processed + job.skipped + job.failed >= job.total

\* UPDATE channels SET total_videos = ? ... WHERE channel_name = ?
UpdateReconciled(name, total, allDone) ==
  {IF r.channel_name = name
   THEN [r EXCEPT !.total_videos = IF allDone THEN total ELSE @,
                  !.last_checked = "reconcile"]
   ELSE r : r \in channels}

\* processMissingVideosAsync, lines 1048-1072.
MissingUpdate(j, db) ==
  /\ run[j].pc = "update"
  /\ channels' = IF db = "ok"
                 THEN UpdateReconciled(channelJobs[j].channelName, run[j].count,
                                       AllDone(channelJobs[j]))
                 ELSE channels
  /\ run' = [run EXCEPT ![j].pc = "done", ![j].count = 0]
  /\ UNCHANGED <<live, podcasts, skipped, channelJobs, nextJob, hist, req, cron, sync, poll>>

\* Rows of a SELECT on skipped_videos as a list, in video_id order.
RECURSIVE RowList(_)
RowList(rows) ==
  IF rows = {} THEN <<>>
  ELSE LET r == CHOOSE x \in rows : \A y \in rows : x.video_id <= y.video_id
       IN <<[id |-> r.video_id, url |-> r.video_url]>> \o RowList(rows \ {r})

SkippedOf(name) == {s \in skipped : s.channel_name = name}

\* POST /api/retry-skipped, lines 1092-1099: the SELECT of the channel's
\* skipped rows (with none the handler answers at once and nothing changes).
RetryRead(c) ==
  /\ nextJob <= MaxJobs
  /\ SkippedOf(c) # {}
  /\ run' = [run EXCEPT ![nextJob] =
               [IdleRun EXCEPT !.kind = "retry", !.pc = "delete", !.url = c,
                               !.list = RowList(SkippedOf(c))]]
  /\ nextJob' = nextJob + 1
  /\ UNCHANGED <<live, podcasts, skipped, channels, channelJobs, hist, req, cron, sync, poll>>

\* RetryDelete with an orchestrator that announces fetching_videos first, as
\* the two listing orchestrators do.
RetryDeleteFetching(j) ==
  /\ run[j].kind = "retry" /\ run[j].pc = "delete"
  /\ skipped' = skipped \ SkippedOf(run[j].url)
  /\ LET job == [NewJob(run[j].url, run[j].url, Len(run[j].list))
                   EXCEPT !.status = "processing"]
         st == LoopStep(job, run[j], 1)
     IN /\ channelJobs' = [channelJobs EXCEPT ![j] = st.job]
        /\ run' = [run EXCEPT ![j] = st.fr]
        /\ hist' = [hist EXCEPT ![j] =
                      <<"starting", "fetching_videos", "processing">> \o st.sts]
  /\ UNCHANGED <<live, podcasts, channels, nextJob, req, cron, sync, poll>>

\* RetryDelete with a DELETE that has no WHERE clause.
RetryDeleteAll(j) ==
  /\ run[j].kind = "retry" /\ run[j].pc = "delete"
  /\ skipped' = {}
  /\ LET job == [NewJob(run[j].url, run[j].url, Len(run[j].list))
                   EXCEPT !.status = "processing"]
         st == LoopStep(job, run[j], 1)
     IN /\ channelJobs' = [channelJobs EXCEPT ![j] = st.job]
        /\ run' = [run EXCEPT ![j] = st.fr]
        /\ hist' = [hist EXCEPT ![j] = <<"starting", "processing">> \o st.sts]
  /\ UNCHANGED <<live, podcasts, channels, nextJob, req, cron, sync, poll>>

\* POST /api/retry-skipped, lines 1102-1127: the DELETE, the job's
\* registration and the synchronous head of retrySkippedVideosAsync.
RetryDelete(j) ==
  /\ run[j].kind = "retry" /\ run[j].pc = "delete"
  /\ skipped' = skipped \ SkippedOf(run[j].url)
  /\ LET job == [NewJob(run[j].url, run[j].url, Len(run[j].list))
                   EXCEPT !.status = "processing"]
         st == LoopStep(job, run[j], 1)
     IN /\ channelJobs' = [channelJobs EXCEPT ![j] = st.job]
        /\ run' = [run EXCEPT ![j] = st.fr]
        /\ hist' = [hist EXCEPT ![j] = <<"starting", "processing">> \o st.sts]
  /\ UNCHANGED <<live, podcasts, channels, nextJob, req, cron, sync, poll>>

\* ------------------------------------------------- single video request
\* ReqCheck without the lookups of lines 278-295 (skipExisting ignored).
ReqCheckNoLookup(url) ==
  /\ req.pc = "idle"
  /\ req.n < MaxReqs
  /\ req' = [IdleReq(req.n + 1) EXCEPT !.pc = "fetch", !.url = url]
  /\ UNCHANGED <<live, podcasts, skipped, channels, jobVars, cron, sync, poll>>

\* ReqCheck without the SELECT on podcasts of lines 279-285: only the skip
\* ledger is consulted.
ReqCheckLedgerOnly(url) ==
  /\ req.pc = "idle"
  /\ req.n < MaxReqs
  /\ req' = IF SkipRows(extractYoutubeId(url)) # {}
            THEN [IdleReq(req.n + 1) EXCEPT !.resp =
                    [url |-> url, out |-> "skipped",
                     reason |-> (CHOOSE r \in SkipRows(extractYoutubeId(url)) : TRUE).skip_reason]]
            ELSE [IdleReq(req.n + 1) EXCEPT !.pc = "fetch", !.url = url]
  /\ UNCHANGED <<live, podcasts, skipped, channels, jobVars, cron, sync, poll>>

\* POST /api/process on a video URL: processVideo(url, id, true), lines
\* 278-295, answers 409 for a stored URL and 404 for a recorded skip.
ReqCheck(url) ==
  /\ req.pc = "idle"
  /\ req.n < MaxReqs
  /\ req' = IF UrlStored(url)
            THEN [IdleReq(req.n + 1) EXCEPT !.resp = [url |-> url, out |-> "skipped",
                                           reason |-> "already_processed"]]
            ELSE IF SkipRows(extractYoutubeId(url)) # {}
            THEN [IdleReq(req.n + 1) EXCEPT !.resp =
                    [url |-> url, out |-> "skipped",
                     reason |-> (CHOOSE r \in SkipRows(extractYoutubeId(url)) : TRUE).skip_reason]]
            ELSE [IdleReq(req.n + 1) EXCEPT !.pc = "fetch", !.url = url]
  /\ UNCHANGED <<live, podcasts, skipped, channels, jobVars, cron, sync, poll>>

ReqFetch(info, tr) ==
  /\ req.pc = "fetch"
  /\ req' = [req EXCEPT !.name = getYoutubeInfo(extractYoutubeId(req.url), info),
                        !.trOut = tr,
                        !.pc = IF NoTranscript(downloadSubtitles(tr))
                               THEN "skipwrite" ELSE "save"]
  /\ UNCHANGED <<live, podcasts, skipped, channels, jobVars, cron, sync, poll>>

ReqSkipWrite ==
  /\ req.pc = "skipwrite"
  /\ skipped' = InsertIgnoreSkipped(req.url, extractYoutubeId(req.url), req.name)
  /\ req' = [IdleReq(req.n) EXCEPT !.resp = [url |-> req.url, out |-> "skipped",
                                      reason |-> "no_subtitles"]]
  /\ UNCHANGED <<live, podcasts, channels, jobVars, cron, sync, poll>>

ReqSave(ai) ==
  /\ req.pc = "save"
  /\ LET ok == ai = "ok" /\ ~UrlStored(req.url)
     IN /\ podcasts' = IF ok THEN InsertPodcast(req.url, req.name) ELSE podcasts
        /\ req' = [IdleReq(req.n) EXCEPT !.resp =
                     [url |-> req.url, out |-> IF ok THEN "success" ELSE "failed",
                      reason |-> IF ok THEN "ok" ELSE IF ai # "ok" THEN "ai" ELSE "dup"]]
  /\ UNCHANGED <<live, skipped, channels, jobVars, cron, sync, poll>>

\* ------------------------------------------------------------- the sweep
CronChannels ==
  {r \in channels : r.channel_url # ""}

RECURSIVE ChannelList(_)
ChannelList(rows) ==
  IF rows = {} THEN <<>>
  ELSE LET r == CHOOSE x \in rows :
                  \A y \in rows : x.channel_name = y.channel_name
                                  \/ x.channel_name \in {"A"}
                                  \/ (x.channel_name = "B" /\ y.channel_name = Unknown)
       IN <<[name |-> r.channel_name, url |-> r.channel_url]>> \o ChannelList(rows \ {r})

CronChan == cron.chans[cron.ci]

CronCur == cron.list[cron.i]

\* runCronJob, lines 1964-1984: the SELECT of the channels with a URL (with
\* none the sweep returns at once).
CronStart ==
  /\ cron.pc = "idle"
  /\ CronChannels # {}
  /\ cron' = [IdleCron EXCEPT !.pc = "snapshot", !.chans = ChannelList(CronChannels),
                              !.ci = 1]
  /\ UNCHANGED <<live, podcasts, skipped, channels, jobVars, req, sync, poll>>

\* runCronJob, lines 1991-2003: processedIds of the channel.
CronSnapshot ==
  /\ cron.pc = "snapshot"
  /\ cron' = [cron EXCEPT !.pc = "list", !.processedIds = ProcessedIds(CronChan.name)]
  /\ UNCHANGED <<live, podcasts, skipped, channels, jobVars, req, sync, poll>>

\* CronListed without the slice(0, 10).
CronListedNoCap ==
  /\ cron.pc = "list"
  /\ LET allVideos == getChannelVideos(CronChan.url, CronWindow)
         newVideos == MissingFilter(allVideos, cron.processedIds)
     IN cron' = [cron EXCEPT
                   !.report.channelsChecked = @ + 1,
                   !.report.newVideosFound = @ + Len(newVideos),
                   !.processedIds = {},
                   !.list = newVideos,
                   !.i = IF newVideos = <<>> THEN 0 ELSE 1,
                   !.pc = IF newVideos = <<>> THEN "touch" ELSE "fetch"]
  /\ UNCHANGED <<live, podcasts, skipped, channels, jobVars, req, sync, poll>>

\* runCronJob, lines 2006-2021: the listing of the recent window came back.
CronListed ==
  /\ cron.pc = "list"
  /\ LET allVideos == getChannelVideos(CronChan.url, CronWindow)
         newVideos == MissingFilter(allVideos, cron.processedIds)
         videosToProcess == Take(newVideos, CronCap)
     IN cron' = [cron EXCEPT
                   !.report.channelsChecked = @ + 1,
                   !.report.newVideosFound = @ + Len(newVideos),
                   !.processedIds = {},
                   !.list = videosToProcess,
                   !.i = IF videosToProcess = <<>> THEN 0 ELSE 1,
                   !.pc = IF videosToProcess = <<>> THEN "touch" ELSE "fetch"]
  /\ UNCHANGED <<live, podcasts, skipped, channels, jobVars, req, sync, poll>>

\* CronChannelFailed without the per-channel try: the error ends the sweep.
CronChannelFailedAbort ==
  /\ cron.pc \in {"snapshot", "list", "touch"}
  /\ cron' = [IdleCron EXCEPT !.report =
                [cron.report EXCEPT !.errors = Append(@, CronChan.name)]]
  /\ UNCHANGED <<live, podcasts, skipped, channels, jobVars, req, sync, poll>>

\* The per-channel catch, lines 2046-2049, then the delay between channels.
CronChannelFailed ==
  /\ cron.pc \in {"snapshot", "list", "touch"}
  /\ cron' = [cron EXCEPT !.report.errors = Append(@, CronChan.name),
                          !.processedIds = {}, !.list = <<>>, !.i = 0,
                          !.pc = "chandelay"]
  /\ UNCHANGED <<live, podcasts, skipped, channels, jobVars, req, sync, poll>>

CronFetch(info, tr) ==
  /\ cron.pc = "fetch"
  /\ cron' = [cron EXCEPT !.name = getYoutubeInfo(CronCur.id, info),
                          !.trOut = tr,
                          !.pc = IF NoTranscript(downloadSubtitles(tr))
                                 THEN "skipwrite" ELSE "save"]
  /\ UNCHANGED <<live, podcasts, skipped, channels, jobVars, req, sync, poll>>

CronSkipWrite ==
  /\ cron.pc = "skipwrite"
  /\ skipped' = InsertIgnoreSkipped(CronCur.url, CronCur.id, cron.name)
  /\ cron' = [cron EXCEPT !.report.videosSkipped = @ + 1,
                          !.name = "", !.trOut = "", !.pc = "vdelay"]
  /\ UNCHANGED <<live, podcasts, channels, jobVars, req, sync, poll>>

CronSave(ai) ==
  /\ cron.pc = "save"
  /\ LET ok == ai = "ok" /\ ~UrlStored(CronCur.url)
     IN /\ podcasts' = IF ok THEN InsertPodcast(CronCur.url, cron.name) ELSE podcasts
        /\ cron' = [cron EXCEPT
                      !.report.videosProcessed = IF ok THEN @ + 1 ELSE @,
                      !.report.videosFailed = IF ok THEN @ ELSE @ + 1,
                      !.name = "", !.trOut = "", !.pc = "vdelay"]
  /\ UNCHANGED <<live, skipped, channels, jobVars, req, sync, poll>>

\* The 2 s delay after a video: next video, or the channel's UPDATE.
CronVideoDelay ==
  /\ cron.pc = "vdelay"
  /\ cron' = IF cron.i < Len(cron.list)
             THEN [cron EXCEPT !.i = @ + 1, !.pc = "fetch"]
             ELSE [cron EXCEPT !.pc = "touch"]
  /\ UNCHANGED <<live, podcasts, skipped, channels, jobVars, req, sync, poll>>

\* UPDATE channels SET last_checked = NOW() WHERE channel_name = ?
CronTouch ==
  /\ cron.pc = "touch"
  /\ channels' = {IF r.channel_name = CronChan.name
                  THEN [r EXCEPT !.last_checked = "cron"] ELSE r : r \in channels}
  /\ cron' = [cron EXCEPT !.list = <<>>, !.i = 0, !.pc = "chandelay"]
  /\ UNCHANGED <<live, podcasts, skipped, jobVars, req, sync, poll>>

\* The 1 s delay after a channel: next channel, or the end of the loop.
CronChannelDelay ==
  /\ cron.pc = "chandelay"
  /\ cron' = IF cron.ci < Len(cron.chans)
             THEN [cron EXCEPT !.ci = @ + 1, !.pc = "snapshot"]
             ELSE IF cron.report.videosProcessed > 0
             THEN [cron EXCEPT !.pc = "enrich"]
             ELSE [IdleCron EXCEPT !.report = cron.report]
  /\ UNCHANGED <<live, podcasts, skipped, channels, jobVars, req, sync, poll>>

\* processAiForNewVideos returned (or threw and was caught); the report is
\* returned.
CronEnrich ==
  /\ cron.pc = "enrich"
  /\ cron' = [IdleCron EXCEPT !.report = cron.report]
  /\ UNCHANGED <<live, podcasts, skipped, channels, jobVars, req, sync, poll>>

\* ---------------------------------------------------------- the sync check
\* new Date('YYYY-MM-DD'): midnight UTC of the day, in hours.
ParseIsoDate(day) == day * HoursPerDay

\* new Date(d) of the Date the database client built for a DATE column:
\* midnight of the day in the server's time zone, in hours UTC.
DriverDate(day, tz) == day * HoursPerDay - tz

\* HasNewVideos with the date comparison tried before the numeric gap.
HasNewDatesFirst(totalVideos, videosInDb, lastVideoDate, newestInDbDate, tz) ==
  IF lastVideoDate # NoDate /\ newestInDbDate # NoDate
  THEN ParseIsoDate(lastVideoDate) > DriverDate(newestInDbDate, tz)
  ELSE IF totalVideos - videosInDb > 0 THEN TRUE
  ELSE lastVideoDate # NoDate /\ newestInDbDate = NoDate /\ videosInDb > 0

\* POST /api/refresh-channel-count, lines 889-906.
HasNewVideos(totalVideos, videosInDb, lastVideoDate, newestInDbDate, tz) ==
  IF totalVideos - videosInDb > 0 THEN TRUE
  ELSE IF lastVideoDate # NoDate /\ newestInDbDate # NoDate
  THEN ParseIsoDate(lastVideoDate) > DriverDate(newestInDbDate, tz)
  ELSE lastVideoDate # NoDate /\ newestInDbDate = NoDate /\ videosInDb > 0

\* SELECT MAX(upload_date) FROM podcasts WHERE podcast_name = ?
MaxUploadDate(name) ==
  LET days == {p.date : p \in {q \in podcasts : q.name = name /\ q.date # NoDate}}
  IN IF days = {} THEN NoDate ELSE CHOOSE d \in days : \A x \in days : x <= d

\* UpsertObserved with the column list of the ingest's upsert: the newest
\* publish date is not written.
UpsertObservedNoDate(name, url, total, last) ==
  IF ChannelRows(name) = {}
  THEN channels \cup {[channel_name |-> name, channel_url |-> url,
                       total_videos |-> total, last_video_date |-> NoDate,
                       last_checked |-> "sync"]}
  ELSE {IF r.channel_name = name
        THEN [r EXCEPT !.channel_url = url, !.total_videos = total,
                       !.last_checked = "sync"]
        ELSE r : r \in channels}

\* INSERT INTO channels ... ON DUPLICATE KEY UPDATE of the sync check.
UpsertObserved(name, url, total, last) ==
  IF ChannelRows(name) = {}
  THEN channels \cup {[channel_name |-> name, channel_url |-> url,
                       total_videos |-> total, last_video_date |-> last,
                       last_checked |-> "sync"]}
  ELSE {IF r.channel_name = name
        THEN [r EXCEPT !.channel_url = url, !.total_videos = total,
                       !.last_video_date = last, !.last_checked = "sync"]
        ELSE r : r \in channels}

SyncAnswer(code) == [IdleSync(sync.n, sync.tz) EXCEPT !.resp.code = code]

\* The request arrives, lines 807-840: a channel URL is listed at once, a
\* video URL is first resolved to its channel.
SyncStart(c, form) ==
  /\ sync.pc = "idle"
  /\ sync.n < MaxSyncs
  /\ sync' = [IdleSync(sync.n + 1, sync.tz) EXCEPT
                !.name = c, !.url = c,
                !.pc = IF form = "video" THEN "resolve" ELSE "list"]
  /\ UNCHANGED <<live, podcasts, skipped, channels, jobVars, req, cron, poll>>

\* Lines 821-834: yt-dlp printed the channel URL, or failed (400).
SyncResolved(out) ==
  /\ sync.pc = "resolve"
  /\ sync' = IF out = "ok" THEN [sync EXCEPT !.pc = "list"] ELSE SyncAnswer("400")
  /\ UNCHANGED <<live, podcasts, skipped, channels, jobVars, req, cron, poll>>

\* Lines 836-851: the full listing came back.
SyncListed ==
  /\ sync.pc = "list"
  /\ LET videoLines == live[sync.url]
     IN sync' = [sync EXCEPT
                   !.total = Len(videoLines),
                   !.first = IF videoLines = <<>> THEN NoVideo ELSE videoLines[1],
                   !.pc = IF videoLines = <<>> THEN "count" ELSE "date"]
  /\ UNCHANGED <<live, podcasts, skipped, channels, jobVars, req, cron, poll>>

\* The listing threw: the handler's catch answers 500.
SyncListFailed ==
  /\ sync.pc = "list"
  /\ sync' = SyncAnswer("500")
  /\ UNCHANGED <<live, podcasts, skipped, channels, jobVars, req, cron, poll>>

\* Lines 852-866: the metadata of the first listed video; without an
\* upload_date, or when the call fails, lastVideoDate stays null.
SyncDated(out) ==
  /\ sync.pc = "date"
  /\ sync' = [sync EXCEPT !.last = IF out = "ok" THEN UploadDay(sync.first) ELSE NoDate,
                          !.first = NoVideo, !.pc = "count"]
  /\ UNCHANGED <<live, podcasts, skipped, channels, jobVars, req, cron, poll>>

\* Lines 870-874: SELECT COUNT(*).
SyncCount(db) ==
  /\ sync.pc = "count"
  /\ sync' = IF db = "ok"
             THEN [sync EXCEPT !.inDb = CountPodcasts(sync.name), !.pc = "newest"]
             ELSE SyncAnswer("500")
  /\ UNCHANGED <<live, podcasts, skipped, channels, jobVars, req, cron, poll>>

\* Lines 877-881: SELECT MAX(upload_date).
SyncNewest(db) ==
  /\ sync.pc = "newest"
  /\ sync' = IF db = "ok"
             THEN [sync EXCEPT !.newest = MaxUploadDate(sync.name), !.pc = "write"]
             ELSE SyncAnswer("500")
  /\ UNCHANGED <<live, podcasts, skipped, channels, jobVars, req, cron, poll>>

\* Lines 889-930: the decision, the upsert of the channel's row and the
\* answer; a database error is answered with 500.
SyncWrite(db) ==
  /\ sync.pc = "write"
  /\ channels' = IF db = "ok"
                 THEN UpsertObserved(sync.name, sync.url, sync.total, sync.last)
                 ELSE channels
  /\ sync' = IF db = "ok"
             THEN [IdleSync(sync.n, sync.tz) EXCEPT
                     !.resp = [code |-> "ok", totalVideos |-> sync.total,
                               videosInDb |-> sync.inDb,
                               missingVideos |-> sync.total - sync.inDb,
                               lastVideoDate |-> sync.last,
                               newestInDb |-> sync.newest,
                               hasNewVideos |-> HasNewVideos(sync.total, sync.inDb,
                                                  sync.last, sync.newest, sync.tz)]]
             ELSE SyncAnswer("500")
  /\ UNCHANGED <<live, podcasts, skipped, jobVars, req, cron, poll>>

NextSync ==
  \/ \E c \in Channels, form \in {"channel", "video"} : SyncStart(c, form)
  \/ \E out \in {"ok", "fail"} : SyncResolved(out)
  \/ SyncListed
  \/ SyncListFailed
  \/ \E out \in {"ok", "fail"} : SyncDated(out)
  \/ \E db \in {"ok", "fail"} : SyncCount(db)
  \/ \E db \in {"ok", "fail"} : SyncNewest(db)
  \/ \E db \in {"ok", "fail"} : SyncWrite(db)

\* ------------------------------------------------------------- status poll
\* The JSON body of a found job, lines 588-598.
StatusBody(job) ==
  [status |-> job.status, url |-> job.url, total |-> job.total,
   processed |-> job.processed, skipped |-> job.skipped, failed |-> job.failed,
   currentVideo |-> job.currentVideo, results |-> job.results, error |-> job.error]

\* PollStatus over a registry that creates the entry it does not find.
PollStatusCreating(id) ==
  /\ poll' = IF channelJobs[id] = NoJob
             THEN [id |-> id, code |-> "200", body |-> StatusBody(NewJob("", "", 0))]
             ELSE [id |-> id, code |-> "200", body |-> StatusBody(channelJobs[id])]
  /\ channelJobs' = IF channelJobs[id] = NoJob
                    THEN [channelJobs EXCEPT ![id] = NewJob("", "", 0)]
                    ELSE channelJobs
  /\ UNCHANGED <<live, podcasts, skipped, channels, nextJob, run, hist, req, cron, sync>>

\* GET /api/channel-status/:jobId, lines 581-599.
PollStatus(id) ==
  /\ poll' = IF channelJobs[id] = NoJob
             THEN [id |-> id, code |-> "404", body |-> NoJob]
             ELSE [id |-> id, code |-> "200", body |-> StatusBody(channelJobs[id])]
  /\ UNCHANGED <<live, podcasts, skipped, channels, jobVars, req, cron, sync>>

\* The client's pollChannelStatus: what one pass of its loop does with the
\* parsed answer.  The loop reads the answer's status field only; the HTTP
\* code is not looked at, and the body of a 404 has no status field.
pollChannelStatus(answer) ==
  IF answer.body.status = "error" THEN "thrown"
  ELSE IF answer.body.status = "completed" THEN "returned"
  ELSE "polling"

\* One pass of the client's loop: the first poll asks for the id that the
\* submission returned, every later one for the same id as long as the loop
\* has not ended.
ClientPoll(id) ==
  /\ IF poll = NoPoll THEN channelJobs[id] # NoJob
     ELSE poll.id = id /\ pollChannelStatus(poll) = "polling"
  /\ PollStatus(id)

\* The server process restarts: channelJobs is a Map in memory that starts
\* empty, the orchestrators running in the old process are gone, the tables
\* stay.  Job ids are random strings, so no later job takes an old id.
ServerRestart ==
  /\ \E j \in JobIds : channelJobs[j] # NoJob
  /\ channelJobs' = [j \in JobIds |-> NoJob]
  /\ run' = [j \in JobIds |-> IdleRun]
  /\ hist' = [j \in JobIds |-> <<>>]
  /\ UNCHANGED <<live, podcasts, skipped, channels, nextJob, req, cron, sync, poll>>

NextJobs ==
  \/ \E c \in Channels, m \in MaxVideosInputs : SubmitChannel(c, m)
  \/ \E j \in JobIds : ChannelListed(j)
  \/ \E j \in JobIds : ListFailed(j)
  \/ \E j \in JobIds, info \in InfoOutcomes, tr \in TranscriptOutcomes : JobFetch(j, info, tr)
  \/ \E j \in JobIds : JobSkipWrite(j)
  \/ \E j \in JobIds, ai \in {"ok", "fail"} : JobSave(j, ai)
  \/ \E j \in JobIds, db \in {"ok", "fail"} : JobUpsert(j, db)
  \/ \E j \in JobIds : JobDelay(j)
  \/ \E c \in Channels : SubmitMissing(c)
  \/ \E j \in JobIds : MissingListed(j)
  \/ \E j \in JobIds, db \in {"ok", "fail"} : MissingCount(j, db)
  \/ \E j \in JobIds, db \in {"ok", "fail"} : MissingUpdate(j, db)
  \/ \E c \in Channels : RetryRead(c)
  \/ \E j \in JobIds : RetryDelete(j)

NextReq ==
  \/ \E f \in Forms, v \in Videos : ReqCheck([form |-> f, id |-> v])
  \/ \E info \in InfoOutcomes, tr \in TranscriptOutcomes : ReqFetch(info, tr)
  \/ ReqSkipWrite
  \/ \E ai \in {"ok", "fail"} : ReqSave(ai)

NextCron ==
  \/ CronStart
  \/ CronSnapshot
  \/ CronListed
  \/ CronChannelFailed
  \/ \E info \in InfoOutcomes, tr \in TranscriptOutcomes : CronFetch(info, tr)
  \/ CronSkipWrite
  \/ \E ai \in {"ok", "fail"} : CronSave(ai)
  \/ CronVideoDelay
  \/ CronTouch
  \/ CronChannelDelay
  \/ CronEnrich

\* Jobs of every kind, MaxJobs of them, interleaved.
Next == NextJobs

Spec == Init /\ [][Next]_vars

\* One job of any kind interleaved with up to MaxReqs single video requests.
InitReq ==
  /\ live = [c \in Channels |->
               IF c = "A" THEN [k \in 1 .. NumVideos - 1 |-> k] ELSE <<NumVideos>>]
  /\ podcasts = {}
  /\ skipped = {}
  /\ channels = {}
  /\ channelJobs = [j \in JobIds |-> NoJob]
  /\ nextJob = MaxJobs
  /\ run = [j \in JobIds |-> IdleRun]
  /\ hist = [j \in JobIds |-> <<>>]
  /\ req = IdleReq(0)
  /\ cron = IdleCron
  /\ sync = IdleSync(0, 0)
  /\ poll = NoPoll

NextJobsReq == NextJobs \/ NextReq

SpecReq == InitReq /\ [][NextJobsReq]_vars

\* One job of any kind, one single video request and any number of sweeps,
\* interleaved.
InitMixed ==
  /\ live = [c \in Channels |->
               IF c = "A" THEN [k \in 1 .. NumVideos - 1 |-> k] ELSE <<NumVideos>>]
  /\ podcasts = {}
  /\ skipped = {}
  /\ channels = {}
  /\ channelJobs = [j \in JobIds |-> NoJob]
  /\ nextJob = MaxJobs
  /\ run = [j \in JobIds |-> IdleRun]
  /\ hist = [j \in JobIds |-> <<>>]
  /\ req = IdleReq(MaxReqs - 1)
  /\ cron = IdleCron
  /\ sync = IdleSync(0, 0)
  /\ poll = NoPoll

NextMixed == NextJobs \/ NextReq \/ NextCron

SpecMixed == InitMixed /\ [][NextMixed]_vars

\* One job of any kind over a channel that lists more videos than a results
\* list may keep; every video has a usable transcript or none, and the
\* summarizer answers.  The Skip Ledger starts empty or, for the retry job,
\* with every video of the channel recorded by an earlier run.
BigList == [k \in 1 .. ResultsCap + BigExtra |-> k]

InitBig ==
  /\ live = [c \in Channels |-> IF c = "A" THEN BigList ELSE <<>>]
  /\ podcasts = {}
  /\ skipped \in {{}, {[video_id |-> BigList[k], video_url |-> WatchUrl(BigList[k]),
                          channel_name |-> "A", skip_reason |-> "no_subtitles"] :
                           k \in 1 .. Len(BigList)}}
  /\ channels = {}
  /\ channelJobs = [j \in JobIds |-> NoJob]
  /\ nextJob = MaxJobs
  /\ run = [j \in JobIds |-> IdleRun]
  /\ hist = [j \in JobIds |-> <<>>]
  /\ req = IdleReq(0)
  /\ cron = IdleCron
  /\ sync = IdleSync(0, 0)
  /\ poll = NoPoll

NextBig ==
  \/ \E m \in MaxVideosInputs : SubmitChannel("A", m)
  \/ \E j \in JobIds : ChannelListed(j)
  \/ \E j \in JobIds : ListFailed(j)
  \/ \E j \in JobIds, tr \in {"ok", "none"} : JobFetch(j, "ok", tr)
  \/ \E j \in JobIds : JobSkipWrite(j)
  \/ \E j \in JobIds : JobSave(j, "ok")
  \/ \E j \in JobIds : JobUpsert(j, "ok")
  \/ \E j \in JobIds : JobDelay(j)
  \/ SubmitMissing("A")
  \/ \E j \in JobIds : MissingListed(j)
  \/ \E j \in JobIds : MissingCount(j, "ok")
  \/ \E j \in JobIds : MissingUpdate(j, "ok")
  \/ RetryRead("A")
  \/ \E j \in JobIds : RetryDelete(j)

SpecBig == InitBig /\ [][NextBig]_vars

\* One channel-ingest job over a channel that lists ScenarioSize videos, the
\* first ScenarioStored of which earlier single video requests have stored.
ScenarioList == [k \in 1 .. ScenarioSize |-> k]

StoredRow(v, name) ==
  [url |-> WatchUrl(v), name |-> name, date |-> UploadDateOf(v, name), dup |-> 0]

InitScenario ==
  /\ live = [c \in Channels |-> IF c = "A" THEN ScenarioList ELSE <<>>]
  /\ podcasts = {StoredRow(v, "A") : v \in 1 .. ScenarioStored}
  /\ skipped = {}
  /\ channels = {}
  /\ channelJobs = [j \in JobIds |-> NoJob]
  /\ nextJob = MaxJobs
  /\ run = [j \in JobIds |-> IdleRun]
  /\ hist = [j \in JobIds |-> <<>>]
  /\ req = IdleReq(0)
  /\ cron = IdleCron
  /\ sync = IdleSync(0, 0)
  /\ poll = NoPoll

NextScenario ==
  \/ \E m \in MaxVideosInputs : SubmitChannel("A", m)
  \/ \E j \in JobIds : ChannelListed(j)
  \/ \E j \in JobIds : ListFailed(j)
  \/ \E j \in JobIds, info \in InfoOutcomes, tr \in TranscriptOutcomes : JobFetch(j, info, tr)
  \/ \E j \in JobIds : JobSkipWrite(j)
  \/ \E j \in JobIds, ai \in {"ok", "fail"} : JobSave(j, ai)
  \/ \E j \in JobIds, db \in {"ok", "fail"} : JobUpsert(j, db)
  \/ \E j \in JobIds : JobDelay(j)

SpecScenario == InitScenario /\ [][NextScenario]_vars

\* One job of any kind under fair scheduling: every external call the job is
\* waiting for eventually returns or fails (yt-dlp and the database client run
\* with timeouts, the delays are timers), so the orchestrator's pending step
\* is eventually taken.  The Skip Ledger starts empty or with one video of
\* channel A recorded by an earlier run, so that a retry job can be submitted.
InitLive ==
  /\ live = [c \in Channels |->
               IF c = "A" THEN [k \in 1 .. NumVideos - 1 |-> k] ELSE <<NumVideos>>]
  /\ podcasts = {}
  /\ skipped \in {{}, {[video_id |-> 1, video_url |-> WatchUrl(1),
                          channel_name |-> "A", skip_reason |-> "no_subtitles"]}}
  /\ channels = {}
  /\ channelJobs = [j \in JobIds |-> NoJob]
  /\ nextJob = MaxJobs
  /\ run = [j \in JobIds |-> IdleRun]
  /\ hist = [j \in JobIds |-> <<>>]
  /\ req = IdleReq(0)
  /\ cron = IdleCron
  /\ sync = IdleSync(0, 0)
  /\ poll = NoPoll

\* The step the orchestrator of job j is waiting to take.
JobStep(j) ==
  \/ ChannelListed(j)
  \/ ListFailed(j)
  \/ \E info \in InfoOutcomes, tr \in TranscriptOutcomes : JobFetch(j, info, tr)
  \/ JobSkipWrite(j)
  \/ \E ai \in {"ok", "fail"} : JobSave(j, ai)
  \/ \E db \in {"ok", "fail"} : JobUpsert(j, db)
  \/ JobDelay(j)
  \/ MissingListed(j)
  \/ \E db \in {"ok", "fail"} : MissingCount(j, db)
  \/ \E db \in {"ok", "fail"} : MissingUpdate(j, db)
  \/ RetryDelete(j)

NextLive == NextJobs

SpecLive == InitLive /\ [][NextLive]_vars /\ \A j \in JobIds : WF_vars(JobStep(j))

\* Sync checks of channel A, up to MaxSyncs of them, one after the other.  The
\* channel lists any number of its videos up to NumVideos, newest first; the
\* Item Store holds any of them, stored with the channel's name, each with its
\* publish date or, stored before the upload_date column existed, without; the
\* channel's row is absent or was written by an ingest of 1 video.
LiveLists == {[k \in 1 .. n |-> n + 1 - k] : n \in 0 .. NumVideos}

LegacyRow(v, name) == [StoredRow(v, name) EXCEPT !.date = NoDate]

StoreContents ==
  {{IF v \in dated THEN StoredRow(v, "A") ELSE LegacyRow(v, "A") : v \in have} :
     have \in SUBSET Videos, dated \in SUBSET Videos}

InitSync ==
  /\ live \in {[c \in Channels |-> IF c = "A" THEN l ELSE <<>>] : l \in LiveLists}
  /\ podcasts \in StoreContents
  /\ skipped = {}
  /\ channels \in {{}, {[channel_name |-> "A", channel_url |-> "A",
                           total_videos |-> 1, last_video_date |-> NoDate,
                           last_checked |-> "ingest"]}}
  /\ channelJobs = [j \in JobIds |-> NoJob]
  /\ nextJob = MaxJobs + 1
  /\ run = [j \in JobIds |-> IdleRun]
  /\ hist = [j \in JobIds |-> <<>>]
  /\ req = IdleReq(MaxReqs)
  /\ cron = IdleCron
  /\ sync \in {IdleSync(0, tz) : tz \in TzOffsets}
  /\ poll = NoPoll

SpecSync == InitSync /\ [][NextSync]_vars

\* Sweeps, any number of them one after the other, over two registered
\* channels whose rows earlier ingests wrote; nothing is stored yet.
LearnedRow(c, total) ==
  [channel_name |-> c, channel_url |-> c, total_videos |-> total,
   last_video_date |-> NoDate, last_checked |-> "ingest"]

InitSweep ==
  /\ live = [c \in Channels |->
               IF c = "A" THEN [k \in 1 .. NumVideos - 1 |-> k] ELSE <<NumVideos>>]
  /\ podcasts = {}
  /\ skipped = {}
  /\ channels = {LearnedRow(c, Len(live[c])) : c \in Channels}
  /\ channelJobs = [j \in JobIds |-> NoJob]
  /\ nextJob = MaxJobs + 1
  /\ run = [j \in JobIds |-> IdleRun]
  /\ hist = [j \in JobIds |-> <<>>]
  /\ req = IdleReq(MaxReqs)
  /\ cron = IdleCron
  /\ sync = IdleSync(0, 0)
  /\ poll = NoPoll

NextSweep == NextCron

SpecSweep == InitSweep /\ [][NextSweep]_vars

\* Sweeps over one registered channel that lists more new videos than a sweep
\* may process; every video has a usable transcript or none, the metadata
\* call and the summarizer answer.
InitSweepBig ==
  /\ live = [c \in Channels |-> IF c = "A" THEN BigList ELSE <<>>]
  /\ podcasts = {}
  /\ skipped = {}
  /\ channels = {LearnedRow("A", Len(BigList))}
  /\ channelJobs = [j \in JobIds |-> NoJob]
  /\ nextJob = MaxJobs + 1
  /\ run = [j \in JobIds |-> IdleRun]
  /\ hist = [j \in JobIds |-> <<>>]
  /\ req = IdleReq(MaxReqs)
  /\ cron = IdleCron
  /\ sync = IdleSync(0, 0)
  /\ poll = NoPoll

NextSweepBig ==
  \/ CronStart
  \/ CronSnapshot
  \/ CronListed
  \/ CronChannelFailed
  \/ \E tr \in {"ok", "none"} : CronFetch("ok", tr)
  \/ CronSkipWrite
  \/ CronSave("ok")
  \/ CronVideoDelay
  \/ CronTouch
  \/ CronChannelDelay
  \/ CronEnrich

SpecSweepBig == InitSweepBig /\ [][NextSweepBig]_vars

\* One channel-ingest job of channel A, polled at any moment under its own id
\* and under an id that no submission returned.
NextPoll ==
  \/ \E id \in JobIds : PollStatus(id)
  \/ \E m \in MaxVideosInputs : SubmitChannel("A", m)
  \/ \E j \in JobIds : ChannelListed(j)
  \/ \E j \in JobIds : ListFailed(j)
  \/ \E j \in JobIds, tr \in {"ok", "none"} : JobFetch(j, "ok", tr)
  \/ \E j \in JobIds : JobSkipWrite(j)
  \/ \E j \in JobIds : JobSave(j, "ok")
  \/ \E j \in JobIds : JobUpsert(j, "ok")
  \/ \E j \in JobIds : JobDelay(j)

SpecPoll == InitReq /\ [][NextPoll]_vars

\* One process-missing job and sync checks that do not overlap it: a check
\* starts when no job is running and the job is submitted when no check is
\* running, so a check that follows the job sees all of its writes.
NextConverge ==
  \/ sync.pc = "idle" /\ \E c \in Channels : SubmitMissing(c)
  \/ \E j \in JobIds : MissingListed(j)
  \/ \E j \in JobIds : ListFailed(j)
  \/ \E j \in JobIds, info \in InfoOutcomes, tr \in TranscriptOutcomes : JobFetch(j, info, tr)
  \/ \E j \in JobIds : JobSkipWrite(j)
  \/ \E j \in JobIds, ai \in {"ok", "fail"} : JobSave(j, ai)
  \/ \E j \in JobIds : JobDelay(j)
  \/ \E j \in JobIds, db \in {"ok", "fail"} : MissingCount(j, db)
  \/ \E j \in JobIds, db \in {"ok", "fail"} : MissingUpdate(j, db)
  \/ (\A j \in JobIds : run[j].pc \in {"idle", "done"}) /\ NextSync

SpecConverge == InitReq /\ [][NextConverge]_vars

\* One channel-ingest job of channel A, the client that submitted it and polls
\* it, and a server that may restart.
NextClient ==
  \/ \E id \in JobIds : ClientPoll(id)
  \/ ServerRestart
  \/ \E m \in MaxVideosInputs : SubmitChannel("A", m)
  \/ \E j \in JobIds : ChannelListed(j)
  \/ \E j \in JobIds : ListFailed(j)
  \/ \E j \in JobIds, tr \in {"ok", "none"} : JobFetch(j, "ok", tr)
  \/ \E j \in JobIds : JobSkipWrite(j)
  \/ \E j \in JobIds : JobSave(j, "ok")
  \/ \E j \in JobIds : JobUpsert(j, "ok")
  \/ \E j \in JobIds : JobDelay(j)

SpecClient == InitReq /\ [][NextClient]_vars

\* ======================================================================
\* Properties
\* ======================================================================
Terminal(job) == job.status \in {"completed", "error"}

Visited(job) == job.processed + job.skipped + job.failed

\* C1: once a job is completed or in error, no later step changes any field
\* of it, so every later poll returns the same body; this includes the steps
\* of the reconciliation that processMissingVideosAsync runs after completion.
C1_TerminalFrozen ==
  [][\A j \in JobIds : Terminal(channelJobs[j]) => channelJobs'[j] = channelJobs[j]]_vars

\* A process-missing job that completed and whose reconciliation has since
\* written the channel's row.
C1_Witness ==
  \E j \in JobIds :
    /\ run[j].kind = "missing" /\ run[j].pc = "done"
    /\ channelJobs[j].status = "completed"
    /\ \E r \in channels : r.channel_name = channelJobs[j].channelName
                           /\ r.last_checked = "reconcile"

RECURSIVE PathIn(_, _)
PathIn(h, steps) ==
  IF Len(h) <= 1 THEN TRUE
  ELSE <<h[1], h[2]>> \in steps /\ PathIn(Tail(h), steps)

ListedSteps ==
  {<<"starting", "fetching_videos">>, <<"fetching_videos", "processing">>,
   <<"fetching_videos", "error">>, <<"processing", "completed">>,
   <<"processing", "error">>}

RetrySteps ==
  {<<"starting", "processing">>, <<"processing", "completed">>,
   <<"processing", "error">>}

HistOk(j, steps) ==
  channelJobs[j] # NoJob =>
    /\ hist[j] # <<>> /\ hist[j][1] = "starting"
    /\ hist[j][Len(hist[j])] = channelJobs[j].status
    /\ PathIn(hist[j], steps)

\* C2 as stated: every job of every kind moves only along starting ->
\* fetching_videos -> processing -> completed | error (or fetching_videos ->
\* error), so none is in processing without having been in fetching_videos.
C2_Original == \A j \in JobIds : HistOk(j, ListedSteps)

\* C2 as amended: channel-ingest and process-missing jobs move only along the
\* five listed transitions; a retry job lists nothing and moves starting ->
\* processing -> completed | error.  No status is entered twice.
C2_Transitions ==
  \A j \in JobIds :
    IF run[j].kind = "retry" THEN HistOk(j, RetrySteps) ELSE HistOk(j, ListedSteps)

\* A retry job and a listing job, both at their end.
C2_Witness ==
  /\ \E j \in JobIds : run[j].kind = "retry"
                       /\ hist[j] = <<"starting", "processing", "completed">>
  /\ \E j \in JobIds : run[j].kind # "retry" /\ Len(hist[j]) = 4

\* C3: once total is set (status processing or later), processed + skipped +
\* failed never exceeds total.
C3_Original ==
  \A j \in JobIds :
    channelJobs[j].status \in {"processing", "completed"} =>
      Visited(channelJobs[j]) <= channelJobs[j].total

CallStarted(j) == run'[j].pc = "fetch" /\ run'[j] # run[j]

\* C4: a processVideo call on a video that has a SkipRecord never goes on to
\* the transcript fetch, whatever skipExisting is.
C4_Original ==
  [][\A j \in JobIds :
       CallStarted(j) =>
         {s \in skipped' : s.video_id = run'[j].list[run'[j].i].id} = {}]_vars

\* C5: a transcript fetch that failed with an error leaves no SkipRecord
\* behind.
C5_Original ==
  [][\A j \in JobIds :
       (run[j].pc = "skipwrite" /\ run[j].trOut = "error" /\ run'[j].pc # "skipwrite")
         => {s \in skipped' : s.video_id = Cur(j).id} \subseteq skipped]_vars

ReqAsked == IF req'.pc = "idle" THEN req'.resp.url ELSE req'.url

RowsOf(tbl, url) == {p \in tbl : p.url = url}

\* C6: single video requests (skipExisting = true) are idempotent.  A request
\* for a stored URL answers skipped(already_processed) and touches no table;
\* a request that gets a transcript goes on to the summarizer, and one that
\* reaches the INSERT succeeds exactly when the summarizer answered and the
\* URL is not stored; a success leaves exactly one Item for the URL and any
\* other outcome leaves the Item Store as it was.
C6_Idempotent ==
  [][/\ (req.pc = "idle" /\ req'.n = req.n + 1 /\ UrlStored(ReqAsked)) =>
          /\ req'.pc = "idle"
          /\ req'.resp = [url |-> ReqAsked, out |-> "skipped",
                          reason |-> "already_processed"]
          /\ podcasts' = podcasts /\ skipped' = skipped
     /\ (req.pc = "fetch" /\ req'.pc # "fetch") =>
          (req'.pc = "save" <=> req'.trOut = "ok")
     /\ (req.pc = "save" /\ req'.pc = "idle") =>
          /\ req'.resp.out = "success" <=>
               (~UrlStored(req.url) /\ req'.resp.reason # "ai")
          /\ req'.resp.out = "success" =>
               Cardinality(RowsOf(podcasts', req.url)) = 1
          /\ req'.resp.out # "success" => podcasts' = podcasts]_vars

\* With no job submitted, the second request answered already_processed: the
\* first one stored the Item.
C6_Witness ==
  /\ nextJob = MaxJobs /\ run[MaxJobs].pc = "idle"
  /\ req.n = 2 /\ req.pc = "idle"
  /\ req.resp.out = "skipped" /\ req.resp.reason = "already_processed"
  /\ Cardinality(RowsOf(podcasts, req.resp.url)) = 1

UniqueUrl == \A p, q \in podcasts : p.url = q.url => p = q

\* C7: the Item Store never holds two Items with one URL, and an INSERT of a
\* URL already stored, by a job, a single video request or the sweep, adds
\* nothing and is counted or answered as failed.
C7_UniqueUrl ==
  [][/\ UniqueUrl'
     /\ \A j \in JobIds :
          (run[j].pc = "save" /\ run'[j].pc # "save" /\ UrlStored(Cur(j).url)) =>
            /\ podcasts' = podcasts
            /\ channelJobs'[j].failed = channelJobs[j].failed + 1
            /\ channelJobs'[j].processed = channelJobs[j].processed
     /\ (req.pc = "save" /\ req'.pc # "save" /\ UrlStored(req.url)) =>
          podcasts' = podcasts /\ req'.resp.out = "failed"
     /\ (cron.pc = "save" /\ cron'.pc # "save" /\ UrlStored(CronCur.url)) =>
          /\ podcasts' = podcasts
          /\ cron'.report.videosFailed = cron.report.videosFailed + 1
          /\ cron'.report.videosProcessed = cron.report.videosProcessed]_vars

\* A single video request lost the race for its URL: the INSERT hit the
\* UNIQUE key and the one Item stored is the other writer's.
C7_Witness ==
  /\ req.resp.out = "failed" /\ req.resp.reason = "dup"
  /\ Cardinality(RowsOf(podcasts, req.resp.url)) = 1

ListedIds(all) == {all[k].id : k \in 1 .. Len(all)}

Unhandled(all) ==
  {v \in ListedIds(all) : ~UrlStored(WatchUrl(v)) /\ SkipRows(v) = {}}

\* C8: the filter of process-missing returns exactly the listed candidates
\* that are neither stored nor recorded as skipped, whatever channel name the
\* rows were stored under.
C8_Original ==
  [][\A j \in JobIds :
       (run[j].pc = "idle" /\ run'[j].kind = "missing") =>
         LET all == getChannelVideos(run'[j].url, MissingMax)
         IN MissingFilter(all, run'[j].processedIds) = SelectSeq2(all, Unhandled(all))]_vars

\* C9: a channel-ingest job sets total to the number of listed candidates that
\* are neither stored nor recorded as skipped, and processes only those.
C9_Original ==
  [][\A j \in JobIds :
       (run[j].kind = "channel" /\ run[j].pc = "list"
        /\ channelJobs'[j].status = "processing") =>
         LET all == getChannelVideos(run[j].url, run[j].max)
         IN /\ channelJobs'[j].total = Cardinality(Unhandled(all))
            /\ ListedIds(run'[j].list) \subseteq Unhandled(all)]_vars

InFlight(j) == run[j].pc \in {"fetch", "skipwrite", "save"}

\* Items handed to processVideo so far, and items whose outcome has come back.
Passed(j) == IF run[j].i = 0 THEN 0
             ELSE IF run[j].i > Len(run[j].list) THEN Len(run[j].list) ELSE run[j].i

Returned(j) == IF InFlight(j) THEN Passed(j) - 1 ELSE Passed(j)

\* C11: at every point of every job processed + skipped + failed is the number
\* of items handed to processVideo so far (the item in flight is counted when
\* its outcome comes back).
C11_Original ==
  \A j \in JobIds :
    channelJobs[j] # NoJob =>
      /\ Returned(j) <= Visited(channelJobs[j])
      /\ Visited(channelJobs[j]) <= Passed(j)

CountOf(results, status) ==
  Cardinality({k \in 1 .. Len(results) : results[k].status = status})

\* C12: a channel-ingest job over 5 listed videos, 2 of them stored, whose 3
\* new videos end as one skipped, one failed and one success, completes with
\* total = 3, processed = 1, skipped = 1 and failed = 1.
C12_Original ==
  \A j \in JobIds :
    (/\ run[j].kind = "channel"
     /\ channelJobs[j].status = "completed"
     /\ channelJobs[j].totalVideosOnYoutube = ScenarioSize
     /\ CountOf(channelJobs[j].results, "skipped") = 1
     /\ CountOf(channelJobs[j].results, "failed") = 1
     /\ CountOf(channelJobs[j].results, "success") = 1) =>
      /\ channelJobs[j].total = ScenarioSize - ScenarioStored
      /\ channelJobs[j].processed = 1
      /\ channelJobs[j].skipped = 1
      /\ channelJobs[j].failed = 1

Last(seq) == seq[Len(seq)]

\* C13: an exception raised while an item is processed (the summarizer threw,
\* or the INSERT hit the UNIQUE key) is counted in failed and logged as the
\* last result with its message; the job stays in processing and goes on with
\* the delay before the next candidate.  A job that has entered processing is
\* never in error, and a completed job has handed every candidate to
\* processVideo.
C13_FailureIsolated ==
  [][\A j \in JobIds :
       /\ (run[j].pc = "save" /\ run'[j].pc # "save"
           /\ channelJobs'[j].processed = channelJobs[j].processed) =>
            /\ channelJobs'[j].failed = channelJobs[j].failed + 1
            /\ channelJobs'[j].skipped = channelJobs[j].skipped
            /\ Last(channelJobs'[j].results).status = "failed"
            /\ Last(channelJobs'[j].results).title = Cur(j).id
            /\ Last(channelJobs'[j].results).detail \in {"ai", "dup"}
            /\ channelJobs'[j].status = "processing"
            /\ run'[j].pc = "delay" /\ run'[j].i = run[j].i
       /\ (run[j].pc = "delay" /\ run'[j].pc # "delay") =>
            IF run[j].i < Len(run[j].list)
            THEN run'[j].pc = "fetch" /\ run'[j].i = run[j].i + 1
                 /\ channelJobs'[j].status = "processing"
            ELSE channelJobs'[j].status = "completed"
       /\ channelJobs'[j].status = "error" =>
            \A k \in 1 .. Len(hist'[j]) : hist'[j][k] # "processing"
       /\ channelJobs'[j].status = "completed" =>
            run'[j].i = Len(run'[j].list) + 1]_vars

\* A job whose every item failed, two of them, and which completed.
C13_Witness ==
  \E j \in JobIds :
    /\ channelJobs[j].status = "completed"
    /\ channelJobs[j].failed >= 2
    /\ channelJobs[j].failed = channelJobs[j].total

\* C14: when the listing of a job fails the job goes from fetching_videos to
\* error with the failure message in its error field; processVideo is never
\* called for it and total, processed, skipped and failed stay 0, with no
\* result and no current item, in that step and in every later state.
C14_ListingFailure ==
  [][\A j \in JobIds :
       /\ (run[j].pc = "list" /\ channelJobs'[j].status = "error") =>
            /\ channelJobs[j].status = "fetching_videos"
            /\ channelJobs'[j] = [channelJobs[j] EXCEPT
                                    !.status = "error",
                                    !.error = "Failed to fetch channel videos"]
            /\ podcasts' = podcasts /\ skipped' = skipped /\ channels' = channels
       /\ channelJobs'[j].status = "error" =>
            /\ hist'[j] = <<"starting", "fetching_videos", "error">>
            /\ channelJobs'[j].error # ""
            /\ channelJobs'[j].total = 0 /\ channelJobs'[j].processed = 0
            /\ channelJobs'[j].skipped = 0 /\ channelJobs'[j].failed = 0
            /\ channelJobs'[j].results = <<>>
            /\ channelJobs'[j].currentVideo = NoVideo
            /\ run'[j].i = 0 /\ run'[j].list = <<>> /\ run'[j].pc = "done"]_vars

\* A channel-ingest job and a process-missing job whose listings failed.
C14_Witness ==
  /\ \E j \in JobIds : run[j].kind = "channel" /\ channelJobs[j].status = "error"
  /\ \E j \in JobIds : run[j].kind = "missing" /\ channelJobs[j].status = "error"

\* The caller of the submission holds the job id: the handler has answered.
\* (A retry submission answers after its DELETE.)
IdHeld(j) == run[j].kind # "none" /\ run[j].pc # "delete"

Statuses == {"starting", "fetching_videos", "processing", "completed", "error"}

\* C15: a submission registers the job with status starting and answers in
\* the same turn, without waiting for the orchestrator: when the caller gets
\* the id no listing has come back, no item has an outcome and the job is not
\* terminal.  From then on the registry holds the job under that id in every
\* state a poll can observe, with one of the five statuses.
C15_RegisteredOnReturn ==
  [][\A j \in JobIds :
       /\ IdHeld(j)' =>
            /\ channelJobs'[j] # NoJob
            /\ hist'[j][1] = "starting"
            /\ channelJobs'[j].status \in Statuses
       /\ (~IdHeld(j) /\ IdHeld(j)') =>
            /\ ~Terminal(channelJobs'[j])
            /\ Visited(channelJobs'[j]) = 0
            /\ channelJobs'[j].results = <<>>
            /\ run'[j].pc \in {"list", "fetch"}]_vars

\* Two ids held: a retry job that has just been answered, and an earlier job
\* whose polls now return completed.
C15_Witness ==
  /\ \E j \in JobIds : IdHeld(j) /\ run[j].kind = "retry" /\ run[j].i = 1
                       /\ run[j].pc = "fetch"
                       /\ channelJobs[j].status = "processing"
  /\ \E j \in JobIds : IdHeld(j) /\ channelJobs[j].status = "completed"

\* C16: under fair scheduling every registered job eventually is completed or
\* in error, whatever the outcomes of its listing and of its items.
C16_Terminates ==
  \A j \in JobIds : (channelJobs[j] # NoJob) ~> Terminal(channelJobs[j])

\* A job that went through a skipped item and a failed item and completed.
C16_Witness ==
  \E j \in JobIds :
    /\ channelJobs[j].status = "completed"
    /\ CountOf(channelJobs[j].results, "skipped") >= 1
    /\ CountOf(channelJobs[j].results, "failed") >= 1

\* The sync check answers with success in this step.
SyncAnswered == sync.pc = "write" /\ sync'.resp.code = "ok"

\* A sync check ends in this step, with any answer.
SyncEnded == sync.pc # "idle" /\ sync'.pc = "idle"

\* C17: the check answers missingVideos = (videos the channel lists) - (Items
\* stored under the channel's name), and hasNewVideos = true whenever that is
\* positive, whatever the two dates are.
C17_NumericGap ==
  [][SyncAnswered =>
       /\ sync'.resp.totalVideos = Len(live[sync.name])
       /\ sync'.resp.videosInDb = CountPodcasts(sync.name)
       /\ sync'.resp.missingVideos = Len(live[sync.name]) - CountPodcasts(sync.name)
       /\ sync'.resp.missingVideos > 0 => sync'.resp.hasNewVideos]_vars

\* A positive gap reported as new although the live newest date is earlier
\* than the newest stored one.
C17_Witness ==
  /\ sync.resp.code = "ok"
  /\ sync.resp.missingVideos > 0 /\ sync.resp.hasNewVideos
  /\ sync.resp.lastVideoDate # NoDate /\ sync.resp.newestInDb # NoDate
  /\ sync.resp.lastVideoDate < sync.resp.newestInDb

\* C18: with no positive gap and both dates present, hasNewVideos is true
\* exactly when the live newest publish date is later than the newest stored
\* one.
C18_Original ==
  [][(/\ SyncAnswered
      /\ sync'.resp.missingVideos <= 0
      /\ sync'.resp.lastVideoDate # NoDate /\ sync'.resp.newestInDb # NoDate) =>
       (sync'.resp.hasNewVideos <=>
          sync'.resp.lastVideoDate > sync'.resp.newestInDb)]_vars

\* C19: with no positive gap, Items stored for the channel, none of them
\* dated, and a channel that lists at least one video, hasNewVideos is true
\* whether or not the live newest publish date was obtained.
C19_Original ==
  [][(/\ SyncAnswered
      /\ sync'.resp.missingVideos <= 0
      /\ sync'.resp.videosInDb > 0 /\ sync'.resp.newestInDb = NoDate
      /\ sync'.resp.totalVideos > 0) =>
       sync'.resp.hasNewVideos]_vars

SyncRow(name, url, total, last) ==
  [channel_name |-> name, channel_url |-> url, total_videos |-> total,
   last_video_date |-> last, last_checked |-> "sync"]

\* C20 as stated: every check that ends, with any answer, leaves the channel's
\* row holding the live total, the live newest publish date and the check
\* time.
C20_Original ==
  [][SyncEnded =>
       \E r \in channels' :
         /\ r.channel_name = sync.name
         /\ r.total_videos = Len(live[sync.name])
         /\ r.last_checked = "sync"]_vars

\* C20 as amended: a check that answers with success has set the channel's
\* row to the URL it listed, the live total, the live newest publish date
\* (null when it could not be obtained) and the check time, whatever
\* hasNewVideos is, and has touched no other row; a check that answers with an
\* error has written nothing.
C20_WritesObserved ==
  [][SyncEnded =>
       IF sync'.resp.code = "ok"
       THEN /\ SyncRow(sync.name, sync.url, Len(live[sync.name]),
                       sync'.resp.lastVideoDate) \in channels'
            /\ \A r \in channels' :
                 r.channel_name = sync.name =>
                   r = SyncRow(sync.name, sync.url, Len(live[sync.name]),
                               sync'.resp.lastVideoDate)
            /\ \A r \in channels : r.channel_name # sync.name => r \in channels'
            /\ \A r \in channels' : r.channel_name # sync.name => r \in channels
       ELSE channels' = channels]_vars

\* The last check failed and left the row an earlier check wrote, with the
\* live newest publish date that check obtained.
C20_Witness ==
  /\ sync.n = MaxSyncs /\ sync.pc = "idle" /\ sync.resp.code = "500"
  /\ \E r \in channels : r.last_checked = "sync" /\ r.last_video_date # NoDate

\* The sweep hands the first item of a channel to processVideo in this step.
SweepStartsItems == cron.pc = "list" /\ cron'.pc = "fetch"

\* C21: the sweep passes items of a channel to processVideo only after a sync
\* check of that channel has answered, in this sweep, with hasNewVideos = true.
C21_Original ==
  [][SweepStartsItems =>
       /\ sync.resp.code = "ok"
       /\ sync.resp.hasNewVideos]_vars

SweepVisited ==
  cron.report.videosProcessed + cron.report.videosSkipped + cron.report.videosFailed

\* C22: a sweep hands at most 10 items of one channel to processVideo,
\* whatever number of new items it found, so processed + skipped + failed of
\* the report is at most 10 times the channels checked; newVideosFound grows
\* by the number of all new items of the listed window.
C22_PerSourceCap ==
  [][/\ Len(cron'.list) <= CronCap
     /\ (cron'.report.videosProcessed + cron'.report.videosSkipped
           + cron'.report.videosFailed) <= CronCap * cron'.report.channelsChecked
     /\ (cron.pc = "list" /\ cron'.pc \in {"fetch", "touch"}) =>
          LET new == MissingFilter(getChannelVideos(CronChan.url, CronWindow),
                                   cron.processedIds)
          IN /\ cron'.report.newVideosFound = cron.report.newVideosFound + Len(new)
             /\ cron'.list = Take(new, CronCap)]_vars

\* A sweep that found more than 10 new items and returned after 10 of them.
C22_Witness ==
  /\ cron.pc = "idle"
  /\ cron.report.newVideosFound > CronCap
  /\ SweepVisited = CronCap

SweepReturns == cron.pc \in {"chandelay", "enrich"} /\ cron'.pc = "idle"

ErrorNames(report) == {report.errors[k] : k \in 1 .. Len(report.errors)}

\* C23: an error while a channel is handled (its SELECTs, its listing, its
\* UPDATE) adds
\* the channel's name to the report's errors and the sweep goes on with the
\* delay before the next channel; the channels are attempted one by one in
\* the order of the SELECT, each once, and the sweep returns its report only
\* after the last one, with every channel either checked or in the errors.
C23_SweepIsolation ==
  [][/\ (cron.pc \in {"snapshot", "list", "touch"} /\ cron'.pc = "chandelay"
         /\ cron'.report.errors # cron.report.errors) =>
          /\ cron'.report.errors = Append(cron.report.errors, CronChan.name)
          /\ cron'.ci = cron.ci /\ cron'.chans = cron.chans
     /\ (cron.pc # "idle" /\ cron'.pc # "idle") =>
          /\ cron'.chans = cron.chans
          /\ cron'.ci = IF cron'.pc = "snapshot" THEN cron.ci + 1 ELSE cron.ci
          /\ cron'.pc = "snapshot" => cron.pc = "chandelay"
     /\ cron'.pc = "snapshot" => cron'.processedIds = {} /\ cron'.list = <<>>
     /\ (cron.pc # "idle" /\ cron'.pc = "idle") => SweepReturns
     /\ SweepReturns =>
          /\ cron.ci = Len(cron.chans)
          /\ cron'.report = cron.report
          /\ cron.report.channelsChecked <= Len(cron.chans)
          /\ Len(cron.report.errors) <= Len(cron.chans)
          /\ Cardinality(ErrorNames(cron.report)) = Len(cron.report.errors)
          /\ cron.report.channelsChecked
               >= Len(cron.chans) - Len(cron.report.errors)]_vars

\* A sweep over two channels returned: the handling of the first one failed,
\* the second channel was checked and one of its videos stored.
C23_Witness ==
  /\ cron.pc = "idle"
  /\ cron.report.errors = <<"A">>
  /\ cron.report.channelsChecked = 1
  /\ cron.report.videosProcessed = 1

\* The sweep hands an item to processVideo in this step.
SweepCallStarted == cron'.pc = "fetch" /\ cron.pc # "fetch"

\* C24: an item that a sweep handed to processVideo with outcome success or
\* skipped (it is stored, or has a SkipRecord that no retry cleared) is not
\* handed to processVideo by a later sweep, whatever channel name its
\* metadata call gave.
C24_Original ==
  [][SweepCallStarted =>
       /\ ~UrlStored(cron'.list[cron'.i].url)
       /\ SkipRows(cron'.list[cron'.i].id) = {}]_vars

\* C25: the Skip Ledger never holds two SkipRecords for one video id, under
\* any interleaving of a job, a single video request and sweeps; a skip of a
\* video that has a record adds nothing and leaves the record as it is (a
\* record only ever disappears, by the DELETE of a retry).
C25_OneSkipRecord ==
  [][/\ \A v \in Videos : Cardinality({s \in skipped' : s.video_id = v}) <= 1
     /\ \A s \in skipped :
          s \in skipped' \/ {t \in skipped' : t.video_id = s.video_id} = {}
     /\ \A j \in JobIds :
          (run[j].pc = "skipwrite" /\ run'[j].pc # "skipwrite"
           /\ SkipRows(Cur(j).id) # {}) => skipped' = skipped
     /\ (cron.pc = "skipwrite" /\ cron'.pc # "skipwrite"
         /\ SkipRows(CronCur.id) # {}) => skipped' = skipped
     /\ (req.pc = "skipwrite" /\ req'.pc # "skipwrite"
         /\ SkipRows(extractYoutubeId(req.url)) # {}) => skipped' = skipped]_vars

\* A channel-ingest job and a single video request both skipped one video;
\* the ledger holds one record for it.
C25_Witness ==
  /\ req.pc = "idle" /\ req.resp.out = "skipped" /\ req.resp.reason = "no_subtitles"
  /\ \E j \in JobIds :
       /\ run[j].kind = "channel"
       /\ \E k \in 1 .. Len(channelJobs[j].results) :
            /\ channelJobs[j].results[k].status = "skipped"
            /\ channelJobs[j].results[k].title = extractYoutubeId(req.resp.url)
  /\ Cardinality(SkipRows(extractYoutubeId(req.resp.url))) = 1

\* C26: the retry-skipped request of a channel deletes exactly the
\* SkipRecords recorded under that channel's name and touches no Item and no
\* channel row; neither the request nor any step of the retry job it starts
\* removes or changes a SkipRecord of another channel name, or an Item.
C26_RetryFrame ==
  [][\A j \in JobIds :
       (run'[j].kind = "retry" /\ run'[j] # run[j]) =>
         /\ \A s \in skipped : s.channel_name # run'[j].url => s \in skipped'
         /\ podcasts \subseteq podcasts'
         /\ run[j].pc = "idle" =>
              skipped' = skipped /\ podcasts' = podcasts /\ channels' = channels
         /\ run[j].pc = "delete" =>
              /\ skipped' = skipped \ SkippedOf(run[j].url)
              /\ podcasts' = podcasts /\ channels' = channels]_vars

\* A retry request has just deleted its channel's records; a record under
\* another channel name is still there.
C26_Witness ==
  \E j \in JobIds :
    /\ run[j].kind = "retry" /\ run[j].pc = "fetch" /\ run[j].i = 1
    /\ SkippedOf(run[j].url) = {}
    /\ \E s \in skipped : s.channel_name # run[j].url

\* C27: a poll of an id the registry does not hold is answered with 404 and
\* no body, and a poll of any id leaves the registry, the orchestrators and
\* the tables as they were: it creates no job and changes none.
C27_UnknownId ==
  [][poll' # poll =>
       /\ channelJobs' = channelJobs /\ run' = run /\ hist' = hist
       /\ nextJob' = nextJob
       /\ podcasts' = podcasts /\ skipped' = skipped /\ channels' = channels
       /\ IF channelJobs[poll'.id] = NoJob
          THEN poll'.code = "404" /\ poll'.body = NoJob
          ELSE poll'.code = "200"
               /\ poll'.body = StatusBody(channelJobs[poll'.id])]_vars

\* The last poll asked for an id that was never created, while the registry
\* holds a completed job.
C27_Witness ==
  /\ poll.code = "404"
  /\ channelJobs[poll.id] = NoJob
  /\ \E j \in JobIds : channelJobs[j] # NoJob /\ channelJobs[j].status = "completed"

\* Outcomes the loop of job j has counted: the three counters, less the
\* listed videos that a channel-ingest job's filter removed before the loop.
LoopCounted(j) ==
  Visited(channelJobs[j])
    - (IF run[j].kind = "channel"
       THEN channelJobs[j].totalVideosOnYoutube - channelJobs[j].total ELSE 0)

\* C28: within a job the calls of processVideo follow one another: the call
\* for a candidate starts from the listing (or the retry's DELETE) for the
\* first one and from the delay after the previous candidate's outcome was
\* counted for the others, with the next index; while the call for candidate
\* i is in flight exactly i - 1 outcomes are counted, and otherwise as many as
\* candidates were handed over.
C28_Sequential ==
  [][\A j \in JobIds :
       /\ channelJobs'[j] # NoJob => LoopCounted(j)' = Returned(j)'
       /\ CallStarted(j) =>
            /\ run[j].pc \in {"list", "delete", "delay"}
            /\ run'[j].i = IF run[j].pc = "delay" THEN run[j].i + 1 ELSE 1
            /\ LoopCounted(j)' = run'[j].i - 1]_vars

\* Two jobs interleave: each has a call in flight, one of them for its second
\* candidate.
C28_Witness ==
  /\ \A j \in JobIds : InFlight(j)
  /\ \E j \in JobIds : run[j].i = 2

\* C29: while the processVideo call of a job for a candidate is in flight the
\* job is processing and its currentVideo names that candidate (a video's
\* title is identified with the video here), so it never names the previous
\* one; a completed job's currentVideo is null.
C29_CurrentVideo ==
  \A j \in JobIds :
    channelJobs[j] # NoJob =>
      /\ InFlight(j) =>
           /\ channelJobs[j].status = "processing"
           /\ channelJobs[j].currentVideo = Cur(j).id
           /\ run[j].i > 1 =>
                channelJobs[j].currentVideo # run[j].list[run[j].i - 1].id
      /\ channelJobs[j].status = "completed" =>
           channelJobs[j].currentVideo = NoVideo

\* One job is at its second candidate, whose name it shows, and another job
\* that counted outcomes is completed and shows none.
C29_Witness ==
  \E j, k \in JobIds :
    /\ InFlight(j) /\ run[j].i = 2
    /\ channelJobs[j].currentVideo = run[j].list[2].id
    /\ channelJobs[k].status = "completed"
    /\ Len(channelJobs[k].results) > 0
    /\ channelJobs[k].currentVideo = NoVideo

\* One of the external calls made for the candidate in flight in job j did
\* not come back in time: yt-dlp's metadata call (timeout 30 s) or its
\* subtitle download (timeout 60 s) threw.
CallTimedOut(j) == run[j].trOut = "error" \/ run[j].name = Unknown

\* C30: an item one of whose external calls exceeded its timeout is counted as
\* failed, neither skipped nor success, and the job is not moved to error.
C30_Original ==
  [][\A j \in JobIds :
       (/\ run[j].pc \in {"skipwrite", "save"}
        /\ CallTimedOut(j)
        /\ run'[j].pc \notin {"skipwrite", "save"})
         => /\ channelJobs'[j].failed = channelJobs[j].failed + 1
            /\ channelJobs'[j].skipped = channelJobs[j].skipped
            /\ channelJobs'[j].processed = channelJobs[j].processed
            /\ channelJobs'[j].status # "error"]_vars

\* The skipped_videos rows of the video of the single video request.
ReqSkipRows == {s \in skipped : s.video_id = extractYoutubeId(req.url)}

C32_KnownUrl ==
  [][(req.pc = "idle" /\ req'.n = req.n + 1 /\ UrlStored(ReqAsked)) =>
       /\ req'.pc = "idle" /\ req'.name = "" /\ req'.trOut = ""
       /\ req'.resp = [url |-> ReqAsked, out |-> "skipped",
                       reason |-> "already_processed"]
       /\ podcasts' = podcasts /\ skipped' = skipped /\ channels' = channels
       /\ jobVars' = jobVars]_vars

\* The first single video request asked for a video that a job had stored,
\* and was answered already_processed.
C32_Witness ==
  /\ req.n = 1 /\ req.pc = "idle"
  /\ req.resp.out = "skipped" /\ req.resp.reason = "already_processed"
  /\ UrlStored(req.resp.url)
  /\ \E j \in JobIds : channelJobs[j] # NoJob /\ channelJobs[j].processed > 0

\* C33: a channel-ingest job reaches the upsert of the channels table from
\* the save of its first success and from nowhere else, and that save always
\* leads to it; the upsert keeps every channel_url that is recorded, gives
\* the job's URL only to a row that has none, and leaves the rows of other
\* names alone.
C33_LearnOnce ==
  [][\A j \in JobIds :
       /\ (run'[j].pc = "upsert" /\ run[j].pc # "upsert") =>
            /\ run[j].pc = "save" /\ run[j].kind = "channel"
            /\ channelJobs[j].processed = 0 /\ channelJobs'[j].processed = 1
       /\ (run[j].pc = "save" /\ run[j].kind = "channel"
             /\ channelJobs'[j].processed = 1 /\ channelJobs[j].processed = 0)
            => run'[j].pc = "upsert"
       /\ (run[j].pc = "upsert" /\ run'[j].pc # "upsert") =>
            /\ run'[j].pc = "delay"
            /\ \A r \in channels :
                 \E q \in channels' :
                   /\ q.channel_name = r.channel_name
                   /\ r.channel_name # run[j].name => q = r
                   /\ r.channel_url # "" => q.channel_url = r.channel_url
                   /\ r.channel_url = "" =>
                        q.channel_url \in {"", channelJobs[j].channelUrl}
            /\ \A q \in channels' :
                 q.channel_name = run[j].name \/ q \in channels]_vars

\* Two channel-ingest jobs learned the same channel name from their first
\* success: the row carries the count of the second job's listing and still
\* the URL of the first.
C33_Witness ==
  \E j, k \in JobIds, r \in channels :
    /\ j # k
    /\ run[j].kind = "channel" /\ run[k].kind = "channel"
    /\ channelJobs[j].processed >= 1 /\ channelJobs[k].processed >= 1
    /\ channelJobs[j].channelUrl # channelJobs[k].channelUrl
    /\ r.channel_url = channelJobs[j].channelUrl
    /\ r.total_videos = channelJobs[k].totalVideosOnYoutube
    /\ channelJobs[j].totalVideosOnYoutube # channelJobs[k].totalVideosOnYoutube

\* Job j, which names its channel, has just run to its end as completed: the
\* orchestrator's last statement is behind it.
NamedJobEnded(j) ==
  /\ run[j].pc # "done" /\ run'[j].pc = "done"
  /\ channelJobs'[j].status = "completed"
  /\ channelJobs'[j].channelName # ""

\* C34: when a job for a named channel has completed with all candidates
\* visited, the channel's row holds the number of Items stored under the
\* channel's name and the stamp of the reconciliation; a job that ends in
\* error leaves total_videos alone.
C34_Original ==
  [][\A j \in JobIds :
       /\ (NamedJobEnded(j) /\ AllDone(channelJobs'[j])) =>
            \E r \in channels' :
              /\ r.channel_name = channelJobs'[j].channelName
              /\ r.total_videos =
                   Cardinality({p \in podcasts' : p.name = r.channel_name})
              /\ r.last_checked = "reconcile"
       /\ (channelJobs[j].status # "error" /\ channelJobs'[j].status = "error") =>
            channels' = channels]_vars

\* The rows of the channels table that a step wrote, for channels that exist
\* on YouTube.
RowsWritten == {r \in channels' : r \notin channels /\ r.channel_name \in Channels}

\* C35: a total_videos written to a channels row is at most the number of
\* videos the channel has, and a row whose total_videos is the length of the
\* channel's full listing is never written with a lower one while the channel
\* is unchanged.
C35_Original ==
  [][\A r \in RowsWritten :
       /\ r.total_videos <= Len(live[r.channel_name])
       /\ \A q \in channels :
            (q.channel_name = r.channel_name
               /\ live' = live
               /\ q.total_videos = Len(live[q.channel_name]))
              => r.total_videos >= q.total_videos]_vars

\* The titles of results are those of the last Len(results) candidates whose
\* outcome came back in job j, in the order of the visits.
LatestInOrder(j) ==
  LET res == channelJobs[j].results
  IN \A m \in 1 .. Len(res) :
       res[m].title = run[j].list[Returned(j) - Len(res) + m].id

\* C36 (as stated): in every job, after k visits results holds the outcomes
\* of the last min(k, 10) items.
C36_Original ==
  \A j \in JobIds :
    channelJobs[j] # NoJob =>
      /\ Len(channelJobs[j].results) = Min(Returned(j), ResultsCap)
      /\ LatestInOrder(j)

\* C36: results holds the outcomes of the most recently visited items in the
\* order of the visits, the newest last: in a process-missing or retry job
\* those of the last min(k, 10) of the k items visited, in a channel-ingest
\* job those of all k; every change of results appends the outcome of the
\* candidate in flight, and drops the oldest entry when a process-missing or
\* retry job already holds 10.
C36_RecentInOrder ==
  [][\A j \in JobIds :
       channelJobs'[j] # NoJob =>
         /\ Len(channelJobs'[j].results) =
              (IF run'[j].kind \in {"missing", "retry"}
               THEN Min(Returned(j)', ResultsCap) ELSE Returned(j)')
         /\ LatestInOrder(j)'
         /\ (channelJobs[j] # NoJob
               /\ channelJobs'[j].results # channelJobs[j].results) =>
              LET old == channelJobs[j].results
                  new == channelJobs'[j].results
              IN /\ Last(new).title = Cur(j).id
                 /\ Last(new).status \in {"success", "skipped", "failed"}
                 /\ new = IF run[j].kind \in {"missing", "retry"}
                             /\ Len(old) = ResultsCap
                          THEN Append(Tail(old), Last(new))
                          ELSE Append(old, Last(new))]_vars

\* A retry or process-missing job has truncated twice: twelve items are
\* visited and results starts with the third.
C36_Witness ==
  \E j \in JobIds :
    /\ run[j].kind \in {"missing", "retry"}
    /\ Returned(j) = ResultsCap + 2
    /\ Len(channelJobs[j].results) = ResultsCap
    /\ channelJobs[j].results[1].title = run[j].list[3].id
    /\ Last(channelJobs[j].results).title = run[j].list[ResultsCap + 2].id

\* C37: every sweep that handled its last channel runs the enrichment step
\* before it returns its report, whatever the number of items it stored.
C37_Original ==
  [][(cron.pc # "idle" /\ cron'.pc = "idle") =>
       /\ cron.pc = "enrich"
       /\ cron'.report = cron.report]_vars

\* C38: every skipped_videos row that the DELETE of a retry-skipped request
\* removes is the row of a video in the list the request read, which is the
\* list its job retries.
C38_Original ==
  [][\A j \in JobIds :
       (run[j].kind = "retry" /\ run[j].pc = "delete" /\ run'[j].pc # "delete") =>
         \A s \in skipped \ skipped' :
           \E k \in 1 .. Len(run'[j].list) : run'[j].list[k].id = s.video_id]_vars

\* A process-missing job of the channel being checked ran to its end as
\* completed without a failed item, and every Item it stored carries the
\* channel's name.
CaughtUp(name) ==
  /\ \E j \in JobIds :
       /\ run[j].kind = "missing" /\ run[j].pc = "done"
       /\ channelJobs[j].status = "completed" /\ channelJobs[j].failed = 0
       /\ channelJobs[j].channelName = name
  /\ \A p \in podcasts : p.name # Unknown

\* C39: a sync check of a channel that follows such a job, the channel
\* unchanged, answers hasNewVideos = false, also when the job skipped items
\* for lack of a transcript.
C39_Original ==
  [][(sync.pc = "write" /\ sync'.resp.code = "ok" /\ CaughtUp(sync.name))
       => ~sync'.resp.hasNewVideos]_vars

\* C40: the client's loop ends on every answer that ends the observation of
\* its job: completed, error, and the 404 of a job id the server does not
\* know; after such an answer the client is not polling.
C40_Original ==
  (poll.code = "404" \/ poll.body.status \in {"completed", "error"})
    => pollChannelStatus(poll) # "polling"

====
